---- MODULE Spec2Model ----
(***************************************************************************)
(* Data-Migration-Audit: the audit pipeline of "Data Migration Code V4.2"  *)
(* (main and its seven validation phases) and the stand-alone "Value by    *)
(* value comparison" script, over two database snapshots.                  *)
(*                                                                         *)
(* A database is a record [tables, sequences, views]; tables maps a table  *)
(* name to [columns, types, pk, rows, indexes, triggers].  A row is a      *)
(* tuple of cells, a cell an integer, a string, or None (SQL NULL).        *)
(***************************************************************************)
EXTENDS Integers, Sequences, FiniteSets, TLC

\* ---------------------------------------------------------------- bounds
\* Row identifiers (primary-key values) range over 1..MaxId.
MaxId == 3
\* Table names range over the first NumTables entries of TableNameSeq.
NumTables == 3
\* main is asked for at most NumRuns runs.
NumRuns == 2
\* The interpreter's hash seed (it fixes the iteration order of sets).
MaxSeed == 1
MaxLen == 3
MaxBatch == 3
MaxReads == 3

\* ------------------------------------------------------ program constants
\* save_results_in_batches(..., batch_size=100)
BatchSize == 100
\* chunk_size = int(chunk_size_str) if chunk_size_str.isdigit() else 10000
DefaultChunkSize == 10000
\* total_steps = 7 in main
total_steps == 7
\* SQL NULL, fetched as Python's None; every other numeric cell is >= 0.
None == -1

VARIABLES
    old_db,               \* the old (source) database
    new_db,               \* the new (target) database
    unreadable,           \* <<side, table>> pairs whose SELECT raises DatabaseError
    failing,              \* <<kind, side, table, column>>: other queries that raise
    hash_seed,            \* the process's hash seed: the order sets iterate in
    program,              \* what is started: "audit" (V4.2 main), "compare" (the
                          \* stand-alone script), "save_results_in_batches"
                          \* (the function called on its own) or
                          \* "notify_on_completion" (the bot script)
    params_list,          \* main: one params record per requested run
    run_num,              \* main: the run in progress (1-based)
    pc,                   \* main: "connect", "steps", "finally", "done",
                          \* "interrupted" or "crashed" (an exception left main)
    step,                 \* main: the step counter of the run in progress
    common_tables,        \* main: set(old_tables) & set(new_tables) of the run
    results_dir,          \* per run, the files written: file name -> content
    performed,            \* <<run, phase, table>>: the phase iterated over table
    error_runs,           \* runs that ended in main's except branch
    cmp_pc,               \* the stand-alone comparison script: "start" or "done"
    database_mismatches,  \* compare_entire_database: mismatches written
    tables_without_pk,    \* compare_entire_database: tables skipped for want of a PK
    call,                 \* save_results_in_batches: the results and batch_size passed
    batch_pc,             \* the call: "idle", "call", "returned" or "raised"
    output_dir,           \* save_results_in_batches: the files in output_dir
    conn_fails,           \* <<run, side>>: oracledb.connect raises DatabaseError
    old_conn,             \* main: the local old_conn, [run, open]; run 0: unbound
    new_conn,             \* main: the local new_conn
    close_calls,          \* <<run, c>>: finally of run called close on the
                          \* connection opened in run c
    progress,             \* notify_on_completion: the global progress
    task_pc,              \* process_task: "idle", "start", "loop", "notify",
                          \* "completing", "completed" or "failed"
    task_step,            \* process_task: the local step
    status_reads          \* receive_telegram_update: the progress values read
                          \* for /status requests, in the order of the reads

vars == <<old_db, new_db, unreadable, failing, hash_seed, program, params_list, run_num, pc, step,
          common_tables, results_dir, performed, error_runs, cmp_pc,
          database_mismatches, tables_without_pk, call, batch_pc, output_dir,
          conn_fails, old_conn, new_conn, close_calls, progress, task_pc,
          task_step, status_reads>>

env_vars == <<old_db, new_db, unreadable, failing, hash_seed, program, params_list>>
main_vars == <<run_num, pc, step, common_tables, results_dir, performed, error_runs>>
cmp_vars == <<cmp_pc, database_mismatches, tables_without_pk>>
batch_vars == <<call, batch_pc, output_dir>>
conn_vars == <<conn_fails, old_conn, new_conn, close_calls>>
task_vars == <<progress, task_pc, task_step, status_reads>>

\* ---------------------------------------------------------------- helpers
Range(s) == {s[i] : i \in DOMAIN s}

Min(a, b) == IF a <= b THEN a ELSE b

RECURSIVE GCD(_, _)
GCD(a, b) == IF b = 0 THEN a ELSE GCD(b, a % b)

RECURSIVE SumSeq(_)
SumSeq(s) == IF s = <<>> THEN 0 ELSE Head(s) + SumSeq(Tail(s))

RECURSIVE FlattenSeq(_)
FlattenSeq(ss) == IF ss = <<>> THEN <<>> ELSE Head(ss) \o FlattenSeq(Tail(ss))

\* The elements of S in ascending order.
RECURSIVE SetToSeq(_)
SetToSeq(S) ==
    IF S = {} THEN <<>>
    ELSE LET x == CHOOSE y \in S : TRUE
         IN <<x>> \o SetToSeq(S \ {x})

\* "for x in S" over a Python set S: the order is fixed by the process's hash
\* seed.  Seed 0 iterates in ascending order, seed 1 in descending order, the
\* seeds after them rotate those two orders.
SetIter(S) ==
    LET s == SetToSeq(S)
        n == Len(s)
        k == hash_seed \div 2
    IN [i \in 1..n |->
            IF hash_seed % 2 = 0
            THEN s[((i - 1 + k) % n) + 1]
            ELSE s[n - ((i - 1 + k) % n)]]

\* The position of column name c in the column list cols (0 when absent).
IndexOf(cols, c) ==
    IF c \in Range(cols) THEN CHOOSE i \in DOMAIN cols : cols[i] = c ELSE 0

\* ------------------------------------------------------- database contents
TableNameSeq == <<"CUSTOMERS", "ITEMS", "ORDERS", "PAYMENTS", "USERS">>
TableNames == {TableNameSeq[i] : i \in 1..NumTables}

Names == <<"A", "B", "C", "D", "E">>

StdColumns == <<"ID", "NAME", "AMOUNT">>
StdTypes == <<<<"NUMBER", 22>>, <<"VARCHAR2", 50>>, <<"NUMBER", 22>>>>
NumericTypes == {"NUMBER", "FLOAT", "DECIMAL"}

Row(i, a) == <<i, Names[i], a>>

Tbl(cols, types, pk, rows) ==
    [columns |-> cols, types |-> types, pk |-> pk, rows |-> rows,
     indexes |-> {"IDX_PK"}, triggers |-> {}]

StdTable(rows) == Tbl(StdColumns, StdTypes, <<"ID">>, rows)

Db(tables) == [tables |-> tables, sequences |-> {"SEQ_1"}, views |-> {}]

\* Every list of rows with ascending, distinct ids in 1..n, the amount of the
\* row with id i drawn from amounts[i].
RECURSIVE KeyedRows(_, _)
KeyedRows(n, amounts) ==
    IF n = 0 THEN {<<>>}
    ELSE LET shorter == KeyedRows(n - 1, amounts)
         IN shorter \cup {Append(s, Row(n, a)) : s \in shorter, a \in amounts[n]}

\* ------------------------------------------------------- catalog and fetch
get_table_list(db) == SetToSeq(DOMAIN db.tables)

\* column_name -> (data_type, data_length), in column_id order; an unknown
\* table has no rows in ALL_TAB_COLUMNS and gives the empty dictionary.
get_table_schema(db, table_name) ==
    IF table_name \in DOMAIN db.tables
    THEN [keys |-> db.tables[table_name].columns,
          items |-> [c \in Range(db.tables[table_name].columns) |->
                        db.tables[table_name].types[
                            IndexOf(db.tables[table_name].columns, c)]]]
    ELSE [keys |-> <<>>, items |-> <<>>]

get_primary_key_columns(db, table_name) ==
    IF table_name \in DOMAIN db.tables THEN db.tables[table_name].pk ELSE <<>>

\* Whether "SELECT ... FROM schema.table" raises oracledb.DatabaseError.
select_raises(side, db, table_name) ==
    \/ table_name \notin DOMAIN db.tables
    \/ <<side, table_name>> \in unreadable

\* Whether a query on a catalog view about the table raises
\* oracledb.DatabaseError; kind is "columns" (ALL_TAB_COLUMNS, read by
\* get_table_schema), "constraints" (ALL_CONSTRAINTS, get_primary_key_columns)
\* or "indexes" (ALL_INDEXES and ALL_TRIGGERS, get_indexes and get_triggers).
catalog_raises(kind, side, table_name) ==
    <<kind, side, table_name, "">> \in failing

\* Whether "SELECT SUM(col), AVG(col) FROM schema.table" raises.
aggregate_raises(side, db, table_name, col) ==
    \/ select_raises(side, db, table_name)
    \/ <<"aggregate", side, table_name, col>> \in failing

\* The tables of a set for which a catalog query raises on either side.
catalog_failed(kind, tables) ==
    {t \in tables : catalog_raises(kind, "old", t) \/ catalog_raises(kind, "new", t)}

\* "for table in order", left by the exception the first table of bad
\* raises: the tables the loop has entered.
entered(order, bad) ==
    {order[i] : i \in {j \in DOMAIN order :
                          \A k \in 1..(j - 1) : order[k] \notin bad}}

\* Mutant of get_table_data: only the first chunk_size rows are fetched.
get_table_data_first_chunk(side, db, table_name) ==
    IF select_raises(side, db, table_name)
    THEN [columns |-> <<>>, rows |-> <<>>]
    ELSE [columns |-> db.tables[table_name].columns,
          rows |-> SubSeq(db.tables[table_name].rows, 1,
                          Min(params_list[run_num].chunk_size,
                              Len(db.tables[table_name].rows)))]

\* (columns, rows) of SELECT *; ([], []) when the query raises DatabaseError.
get_table_data(side, db, table_name) ==
    IF select_raises(side, db, table_name)
    THEN [columns |-> <<>>, rows |-> <<>>]
    ELSE [columns |-> db.tables[table_name].columns,
          rows |-> db.tables[table_name].rows]

\* ------------------------------------------------------------------ output
\* writer.writerow({}): a row with every field empty.
BlankRow == [Type |-> "", Table |-> ""]

SeparatorRow == [Type |-> "Detailed Comparison Below", Table |-> ""]

\* The discrepancy section of a report: the records, or the single
\* "No discrepancies noted" row.
discrepancy_rows(discrepancies) ==
    IF discrepancies # <<>> THEN discrepancies
    ELSE <<[Type |-> "No discrepancies noted", Table |-> ""]>>

\* Mutant of ReportFile: the detail rows are written first.
ReportFile_details_first(fieldnames, discrepancies, detailed_comparison) ==
    [fieldnames |-> fieldnames,
     rows |-> discrepancy_rows(discrepancies),
     detailed |-> detailed_comparison,
     written |-> detailed_comparison
                 \o <<BlankRow, BlankRow, SeparatorRow, BlankRow>>
                 \o discrepancy_rows(discrepancies)]

\* The content of a report file: the header, then in the order written the
\* discrepancy rows, two blank rows, the "Detailed Comparison Below"
\* separator, a blank row and the detail rows.
ReportFile(fieldnames, discrepancies, detailed_comparison) ==
    [fieldnames |-> fieldnames,
     rows |-> discrepancy_rows(discrepancies),
     detailed |-> detailed_comparison,
     written |-> discrepancy_rows(discrepancies)
                 \o <<BlankRow, BlankRow, SeparatorRow, BlankRow>>
                 \o detailed_comparison]

\* Mutant of save_results_in_batches: one unit is written, also for an
\* empty list.
save_results_in_one_unit(results, prefix, batch_size) ==
    [files |-> (<<prefix, "_batch_", 1>> :>
                   [fieldnames |-> {"Table", "Type", "Details"}, rows |-> results]),
     raised |-> FALSE]

\* One output unit per batch, named <<prefix, "_batch_", i>>; the header of a
\* unit is the key set of its first record, and csv.DictWriter raises
\* ValueError at the first record holding a key outside the header, leaving
\* the rows before it written and the later units unwritten.
save_results_in_batches(results, prefix, batch_size) ==
    LET batch_count == (Len(results) \div batch_size)
                          + (IF Len(results) % batch_size # 0 THEN 1 ELSE 0)
        batch_results(i) == SubSeq(results, (i - 1) * batch_size + 1,
                                   Min(i * batch_size, Len(results)))
        fits(i, k) == DOMAIN batch_results(i)[k] \subseteq DOMAIN batch_results(i)[1]
        good(i) == \A k \in 1..Len(batch_results(i)) : fits(i, k)
        bad == {i \in 1..batch_count : ~good(i)}
        stop == IF bad = {} THEN batch_count
                ELSE CHOOSE i \in bad : \A j \in bad : i <= j
        written(i) ==
            IF good(i) THEN batch_results(i)
            ELSE LET k == CHOOSE k \in 1..Len(batch_results(i)) :
                              /\ ~fits(i, k)
                              /\ \A j \in 1..(k - 1) : fits(i, j)
                 IN SubSeq(batch_results(i), 1, k - 1)
    IN [files |-> [f \in {<<prefix, "_batch_", i>> : i \in 1..stop} |->
                      [fieldnames |-> DOMAIN batch_results(f[3])[1],
                       rows |-> written(f[3])]],
        raised |-> bad # {}]

\* -------------------------------------------------- value-by-value check
\* Mutant of row_key: the key is the first column of the row.
row_key_first_column(row) == <<row[1]>>

\* tuple(row): the dictionary key of a fetched row.
row_key(row) == row

\* Mutant of data_dict: the key holds the position of the row, so equal rows
\* get different keys.
data_dict_by_position(data) ==
    [key \in {<<i, data[i]>> : i \in DOMAIN data} |-> key[2]]

\* {tuple(row): row for row in data}: a later row replaces an earlier one
\* with the same key.
data_dict(data) ==
    [key \in {row_key(data[i]) : i \in DOMAIN data} |->
        data[CHOOSE i \in DOMAIN data :
                /\ row_key(data[i]) = key
                /\ \A j \in DOMAIN data : row_key(data[j]) = key => j <= i]]

\* Mutant of columns_differ: only the numbers of columns are compared.
columns_differ_by_length(old_columns, new_columns) ==
    Len(old_columns) # Len(new_columns)

\* if old_columns != new_columns: list inequality, sensitive to order.
columns_differ(old_columns, new_columns) == old_columns # new_columns

\* set(old_data_dict.keys()) - set(new_data_dict.keys())
missing_keys(old_data_dict, new_data_dict) ==
    DOMAIN old_data_dict \ DOMAIN new_data_dict

\* Mutant of extra_keys: the old keys are not subtracted.
extra_keys_unfiltered(old_data_dict, new_data_dict) == DOMAIN new_data_dict

\* set(new_data_dict.keys()) - set(old_data_dict.keys())
extra_keys(old_data_dict, new_data_dict) ==
    DOMAIN new_data_dict \ DOMAIN old_data_dict

\* The records value_by_value_check appends for one table.
value_by_value_table(table) ==
    LET old == get_table_data("old", old_db, table)
        new == get_table_data("new", new_db, table)
        old_columns == old.columns
        new_columns == new.columns
        old_data_dict == data_dict(old.rows)
        new_data_dict == data_dict(new.rows)
        missing_in_new == SetIter(missing_keys(old_data_dict, new_data_dict))
        extra_in_new == SetIter(extra_keys(old_data_dict, new_data_dict))
        common_keys == SetIter(DOMAIN old_data_dict \cap DOMAIN new_data_dict)
        cells(key) ==
            LET old_row == old_data_dict[key]
                new_row == new_data_dict[key]
                differing == SelectSeq([i \in 1..Len(old_columns) |-> i],
                                       LAMBDA i : old_row[i] # new_row[i])
            IN [j \in 1..Len(differing) |->
                   [Table |-> table,
                    Type |-> "Cell Value Mismatch",
                    Column |-> old_columns[differing[j]],
                    Row_Key |-> key,
                    Old_Value |-> old_row[differing[j]],
                    New_Value |-> new_row[differing[j]],
                    Details |-> <<"Mismatch in column", old_columns[differing[j]],
                                 key, old_row[differing[j]], new_row[differing[j]]>>]]
    IN IF columns_differ(old_columns, new_columns)
       THEN <<[Table |-> table,
               Type |-> "Column Structure Mismatch",
               Details |-> <<"Old(", old_columns, ") vs New(", new_columns, ")">>]>>
       ELSE [i \in 1..Len(missing_in_new) |->
                [Table |-> table,
                 Type |-> "Missing Row in New",
                 Details |-> <<"Row missing in the new database: ",
                              old_data_dict[missing_in_new[i]]>>]]
            \o [i \in 1..Len(extra_in_new) |->
                [Table |-> table,
                 Type |-> "Extra Row in New",
                 Details |-> <<"Row extra in the new database: ",
                              new_data_dict[extra_in_new[i]]>>]]
            \o FlattenSeq([i \in 1..Len(common_keys) |-> cells(common_keys[i])])

\* value_by_value_check: the records of every table of tables, in the order
\* the set iterates, handed to save_results_in_batches.
value_by_value_check(tables) ==
    LET order == SetIter(tables)
        value_mismatch_results ==
            FlattenSeq([i \in 1..Len(order) |-> value_by_value_table(order[i])])
        saved == save_results_in_batches(value_mismatch_results,
                                         "value_by_value_check", BatchSize)
    IN [files |-> saved.files, raised |-> saved.raised, performed |-> tables]

\* ---------------------------------------------------- SQL join operation
sql_join_table(table) ==
    LET old == get_table_data("old", old_db, table)
        new == get_table_data("new", new_db, table)
        old_data_dict == data_dict(old.rows)
        new_data_dict == data_dict(new.rows)
        common_rows == SetIter(DOMAIN old_data_dict \cap DOMAIN new_data_dict)
        differing == SelectSeq(common_rows,
                               LAMBDA k : old_data_dict[k] # new_data_dict[k])
        missing_in_new == missing_keys(old_data_dict, new_data_dict)
        missing_in_old == extra_keys(old_data_dict, new_data_dict)
        rec(type, text, rows) ==
            [i \in 1..Len(rows) |->
                [Table |-> table, Type |-> type, Details |-> <<text, rows[i]>>]]
    IN IF columns_differ(old.columns, new.columns)
       THEN <<[Table |-> table,
               Type |-> "Column Structure Mismatch",
               Details |-> <<"Column structure differs: Old(", old.columns,
                            ") vs New(", new.columns, ")">>]>>
       ELSE [i \in 1..Len(differing) |->
                [Table |-> table,
                 Type |-> "Data Mismatch (INNER JOIN)",
                 Details |-> <<"Values differ for row", differing[i],
                              old_data_dict[differing[i]],
                              new_data_dict[differing[i]]>>]]
            \o rec("Missing in New DB (LEFT JOIN)",
                   "exists in Old DB but not in New DB", SetIter(missing_in_new))
            \o rec("Extra in New DB (RIGHT JOIN)",
                   "exists in New DB but not in Old DB", SetIter(missing_in_old))
            \o rec("Full Outer Join Discrepancy",
                   "exists in one DB but not in the other",
                   SetIter(missing_in_old \cup missing_in_new))

sql_join_operation(tables) ==
    LET order == SetIter(tables)
        join_mismatch_results ==
            FlattenSeq([i \in 1..Len(order) |-> sql_join_table(order[i])])
        saved == save_results_in_batches(join_mismatch_results,
                                         "sql_join_comparison", BatchSize)
    IN [files |-> saved.files, raised |-> saved.raised, performed |-> tables]

\* ------------------------------------------------------ table-level diff
\* Mutant of missing_table_set: the new tables are not subtracted.
missing_table_set_unfiltered(old_tables, new_tables) == Range(old_tables)

\* set(old_tables) - set(new_tables)
missing_table_set(old_tables, new_tables) == Range(old_tables) \ Range(new_tables)

\* set(new_tables) - set(old_tables)
extra_table_set(old_tables, new_tables) == Range(new_tables) \ Range(old_tables)

\* set(old_tables).intersection(new_tables)
common_table_set(old_tables, new_tables) == Range(old_tables) \cap Range(new_tables)

\* ------------------------------------------------------- count validation
\* SELECT COUNT(*) FROM schema.table
select_count(db, table_name) == Len(db.tables[table_name].rows)

count_table(table) ==
    LET raises == \/ select_raises("old", old_db, table)
                  \/ select_raises("new", new_db, table)
                  \/ catalog_raises("columns", "old", table)
                  \/ catalog_raises("columns", "new", table)
        old_row_count == select_count(old_db, table)
        new_row_count == select_count(new_db, table)
        old_col_count == Len(get_table_schema(old_db, table).keys)
        new_col_count == Len(get_table_schema(new_db, table).keys)
        old_total_values == old_row_count * old_col_count
        new_total_values == new_row_count * new_col_count
        rec(type, details) ==
            [Type |-> type, Table |-> table,
             Old_Row_Count |-> old_row_count, New_Row_Count |-> new_row_count,
             Old_Column_Count |-> old_col_count, New_Column_Count |-> new_col_count,
             Old_Total_Values |-> old_total_values,
             New_Total_Values |-> new_total_values,
             Details |-> details]
    IN IF raises
       THEN [discrepancies |->
                <<[Type |-> "Database Error", Table |-> table,
                   Old_Row_Count |-> "N/A", New_Row_Count |-> "N/A",
                   Old_Column_Count |-> "N/A", New_Column_Count |-> "N/A",
                   Details |-> "DatabaseError"]>>,
             detailed |-> <<>>]
       ELSE [discrepancies |->
                (IF old_row_count # new_row_count
                 THEN <<rec("Row Count Mismatch", "Row counts do not match")>>
                 ELSE <<>>)
                \o (IF old_total_values # new_total_values
                    THEN <<rec("Total Value Count Mismatch",
                               "Mismatch in total values (rows*columns)")>>
                    ELSE <<>>),
             detailed |-> <<rec("Detailed Comparison", "OK")>>]

count_validation ==
    LET old_tables == get_table_list(old_db)
        new_tables == get_table_list(new_db)
        missing_tables == SetIter(missing_table_set(old_tables, new_tables))
        extra_tables == SetIter(extra_table_set(old_tables, new_tables))
        common == common_table_set(old_tables, new_tables)
        order == SetIter(common)
        per_table == [i \in 1..Len(order) |-> count_table(order[i])]
        discrepancies ==
            [i \in 1..Len(missing_tables) |->
                [Type |-> "Missing Table", Table |-> missing_tables[i],
                 Details |-> "Table is missing in the new database."]]
            \o [i \in 1..Len(extra_tables) |->
                [Type |-> "Extra Table", Table |-> extra_tables[i],
                 Details |-> "Table is extra in the new database."]]
            \o FlattenSeq([i \in 1..Len(order) |-> per_table[i].discrepancies])
        detailed_comparison ==
            FlattenSeq([i \in 1..Len(order) |-> per_table[i].detailed])
    IN [files |-> (<<"count_validation.csv">> :>
                      ReportFile({"Type", "Table", "Old_Row_Count", "New_Row_Count",
                                  "Old_Column_Count", "New_Column_Count",
                                  "Old_Total_Values", "New_Total_Values", "Details"},
                                 discrepancies, detailed_comparison)),
        raised |-> FALSE,
        performed |-> common]

\* ---------------------------------------------- miscellaneous discrepancies
get_indexes(db, table_name) ==
    IF table_name \in DOMAIN db.tables THEN db.tables[table_name].indexes ELSE {}

\* Mutant of get_triggers: no trigger is found.
get_triggers_none(db, table_name) == {}

get_triggers(db, table_name) ==
    IF table_name \in DOMAIN db.tables THEN db.tables[table_name].triggers ELSE {}

get_sequences(db) == db.sequences

get_views(db) == db.views

\* One record per name of names, in the order the set iterates.
object_records(type, table, names, details) ==
    LET order == SetIter(names)
    IN [i \in 1..Len(order) |->
           [Type |-> type, Table |-> table, Object |-> order[i],
            Details |-> details]]

misc_table(t) ==
    LET old_idx == get_indexes(old_db, t)
        new_idx == get_indexes(new_db, t)
        old_trg == get_triggers(old_db, t)
        new_trg == get_triggers(new_db, t)
    IN [discrepancies |->
            object_records("Missing Index", t, old_idx \ new_idx,
                           "is missing in new DB.")
            \o object_records("Extra Index", t, new_idx \ old_idx,
                              "is extra in new DB.")
            \o object_records("Missing Trigger", t, old_trg \ new_trg,
                              "is missing in new DB.")
            \o object_records("Extra Trigger", t, new_trg \ old_trg,
                              "is extra in new DB."),
        detailed |->
            <<[Type |-> "Detailed Comparison", Table |-> t,
               Object |-> "Indexes/Triggers",
               Details |-> <<old_idx, new_idx, old_trg, new_trg>>]>>]

miscellaneous_discrepancies ==
    LET old_tables == get_table_list(old_db)
        new_tables == get_table_list(new_db)
        missing_tables == SetIter(missing_table_set(old_tables, new_tables))
        extra_tables == SetIter(extra_table_set(old_tables, new_tables))
        common == common_table_set(old_tables, new_tables)
        order == SetIter(common)
        per_table == [i \in 1..Len(order) |-> misc_table(order[i])]
        old_seq == get_sequences(old_db)
        new_seq == get_sequences(new_db)
        old_vw == get_views(old_db)
        new_vw == get_views(new_db)
        discrepancies ==
            [i \in 1..Len(missing_tables) |->
                [Type |-> "Missing Table", Table |-> missing_tables[i],
                 Details |-> "Table exists in old DB but not in new DB."]]
            \o [i \in 1..Len(extra_tables) |->
                [Type |-> "Extra Table", Table |-> extra_tables[i],
                 Details |-> "Table exists in new DB but not in old DB."]]
            \o FlattenSeq([i \in 1..Len(order) |-> per_table[i].discrepancies])
            \o object_records("Missing Sequence", "", old_seq \ new_seq,
                              "is missing in new DB.")
            \o object_records("Extra Sequence", "", new_seq \ old_seq,
                              "is extra in new DB.")
            \o object_records("Missing View", "", old_vw \ new_vw,
                              "is missing in new DB.")
            \o object_records("Extra View", "", new_vw \ old_vw,
                              "is extra in new DB.")
        detailed_comparison ==
            FlattenSeq([i \in 1..Len(order) |-> per_table[i].detailed])
            \o <<[Type |-> "Detailed Comparison", Table |-> "",
                  Object |-> "Sequences", Details |-> <<old_seq, new_seq>>],
                 [Type |-> "Detailed Comparison", Table |-> "",
                  Object |-> "Views", Details |-> <<old_vw, new_vw>>]>>
        bad == catalog_failed("indexes", common)
    IN IF bad # {}
       THEN [files |-> <<>>, raised |-> TRUE, performed |-> entered(order, bad)]
       ELSE [files |-> (<<"table_hygiene_check.csv">> :>
                          ReportFile({"Type", "Table", "Object", "Details"},
                                     discrepancies, detailed_comparison)),
             raised |-> FALSE,
             performed |-> common]

\* -------------------------------------------------------- schema validation
\* Mutant of schema_defs_differ: the lengths are not compared.
schema_defs_differ_by_type(old_def, new_def) == old_def[1] # new_def[1]

\* if old_schema_def[col] != new_schema_def[col]: the (data_type,
\* data_length) tuples are compared.
schema_defs_differ(old_def, new_def) == old_def # new_def

schema_table(table) ==
    LET old_schema_def == get_table_schema(old_db, table)
        new_schema_def == get_table_schema(new_db, table)
        old_cols == Range(old_schema_def.keys)
        new_cols == Range(new_schema_def.keys)
        missing_cols == old_cols \ new_cols
        extra_cols == new_cols \ old_cols
        missing_order == SetIter(missing_cols)
        extra_order == SetIter(extra_cols)
        differing == SelectSeq(SetIter(old_cols \cap new_cols),
                               LAMBDA c : schema_defs_differ(old_schema_def.items[c],
                                                             new_schema_def.items[c]))
        union_cols == SetIter(old_cols \cup new_cols)
        old_def(c) == IF c \in old_cols THEN old_schema_def.items[c]
                      ELSE <<"Missing", "N/A">>
        new_def(c) == IF c \in new_cols THEN new_schema_def.items[c]
                      ELSE <<"Missing", "N/A">>
    IN [discrepancies |->
            [i \in 1..Len(missing_order) |->
                [Type |-> "Missing Column", Table |-> table,
                 Column |-> missing_order[i],
                 Old_Data_Type |-> old_schema_def.items[missing_order[i]],
                 Details |-> "is missing in new DB."]]
            \o [i \in 1..Len(extra_order) |->
                [Type |-> "Extra Column", Table |-> table,
                 Column |-> extra_order[i],
                 New_Data_Type |-> new_schema_def.items[extra_order[i]],
                 Details |-> "is extra in new DB."]]
            \o [i \in 1..Len(differing) |->
                [Type |-> "Data Type Mismatch", Table |-> table,
                 Column |-> differing[i],
                 Old_Data_Type |-> old_schema_def.items[differing[i]],
                 New_Data_Type |-> new_schema_def.items[differing[i]],
                 Details |-> "type differs."]],
        detailed |->
            [i \in 1..Len(union_cols) |->
                [Type |-> "Detailed Comparison", Table |-> table,
                 Column |-> union_cols[i],
                 Old_Data_Type |-> old_def(union_cols[i]),
                 New_Data_Type |-> new_def(union_cols[i]),
                 Details |-> IF \/ union_cols[i] \in missing_cols
                                \/ union_cols[i] \in extra_cols
                                \/ old_def(union_cols[i]) # new_def(union_cols[i])
                             THEN "Discrepancy" ELSE "Match"]]]

schema_validation ==
    LET old_tables == get_table_list(old_db)
        new_tables == get_table_list(new_db)
        common == common_table_set(old_tables, new_tables)
        order == SetIter(common)
        per_table == [i \in 1..Len(order) |-> schema_table(order[i])]
        bad == catalog_failed("columns", common)
    IN IF bad # {}
       THEN [files |-> <<>>, raised |-> TRUE, performed |-> entered(order, bad)]
       ELSE
       [files |-> (<<"schema_validation.csv">> :>
                      ReportFile({"Type", "Table", "Column", "Old_Data_Type",
                                  "New_Data_Type", "Details"},
                                 FlattenSeq([i \in 1..Len(order) |->
                                                per_table[i].discrepancies]),
                                 FlattenSeq([i \in 1..Len(order) |->
                                                per_table[i].detailed]))),
        raised |-> FALSE,
        performed |-> common]

\* ------------------------------------------------------ aggregate validation
\* The values of column col over the rows of the table, in row order.
column_values(db, table, col) ==
    LET t == db.tables[table]
        idx == IndexOf(t.columns, col)
    IN [i \in 1..Len(t.rows) |-> t.rows[i][idx]]

non_null(values) == SelectSeq(values, LAMBDA v : v # None)

\* SELECT SUM(col): NULLs are skipped; NULL when no value is left.
sql_sum(values) ==
    IF non_null(values) = <<>> THEN None ELSE SumSeq(non_null(values))

\* SELECT AVG(col): the exact quotient sum/count over the non-NULL values, as
\* the reduced fraction <<numerator, denominator>>; NULL (<<None, 1>>) when
\* no value is left.
sql_avg(values) ==
    LET nn == non_null(values)
        total == SumSeq(nn)
        g == GCD(total, Len(nn))
    IN IF nn = <<>> THEN <<None, 1>> ELSE <<total \div g, Len(nn) \div g>>

\* Mutant of aggregates_differ: only the sums are compared.
aggregates_differ_sum_only(old_sum, new_sum, old_avg, new_avg) ==
    old_sum # new_sum

\* if old_sum != new_sum or old_avg != new_avg
aggregates_differ(old_sum, new_sum, old_avg, new_avg) ==
    old_sum # new_sum \/ old_avg # new_avg

\* Mutant of aggregate_error: the except branch only prints the error.
aggregate_error_unrecorded(table, col) ==
    [discrepancies |-> <<>>, detailed |-> <<>>]

\* except Exception as e: one "Error" record for the table and the column.
aggregate_error(table, col) ==
    [discrepancies |->
        <<[Type |-> "Error", Table |-> table, Column |-> col,
           Details |-> "DatabaseError"]>>,
     detailed |-> <<>>]

aggregate_column(table, col) ==
    LET raises == \/ aggregate_raises("old", old_db, table, col)
                  \/ aggregate_raises("new", new_db, table, col)
        old_sum == sql_sum(column_values(old_db, table, col))
        old_avg == sql_avg(column_values(old_db, table, col))
        new_sum == sql_sum(column_values(new_db, table, col))
        new_avg == sql_avg(column_values(new_db, table, col))
        rec(type, details) ==
            [Type |-> type, Table |-> table, Column |-> col,
             Old_SUM |-> old_sum, New_SUM |-> new_sum,
             Old_AVG |-> old_avg, New_AVG |-> new_avg, Details |-> details]
    IN IF raises
       THEN aggregate_error(table, col)
       ELSE [discrepancies |->
                IF aggregates_differ(old_sum, new_sum, old_avg, new_avg)
                THEN <<rec("Aggregate Mismatch", "Mismatch")>>
                ELSE <<>>,
             detailed |->
                <<rec("Detailed Comparison",
                      IF old_sum = new_sum /\ old_avg = new_avg
                      THEN "Match" ELSE "Mismatch")>>]

\* The columns numeric on both sides, in the old side's column order.
numerical_columns(table) ==
    LET old_table_schema == get_table_schema(old_db, table)
        new_table_schema == get_table_schema(new_db, table)
    IN SelectSeq(old_table_schema.keys,
                 LAMBDA c : /\ old_table_schema.items[c][1] \in NumericTypes
                            /\ c \in Range(new_table_schema.keys)
                            /\ new_table_schema.items[c][1] \in NumericTypes)

aggregate_function_validation(tables) ==
    LET order == SetIter(tables)
        per_table(table) ==
            LET cols == numerical_columns(table)
            IN [i \in 1..Len(cols) |-> aggregate_column(table, cols[i])]
        per_column ==
            FlattenSeq([i \in 1..Len(order) |-> per_table(order[i])])
        bad == catalog_failed("columns", tables)
    IN IF bad # {}
       THEN [files |-> <<>>, raised |-> TRUE, performed |-> entered(order, bad)]
       ELSE
       [files |-> (<<"aggregate_function_validation.csv">> :>
                      ReportFile({"Type", "Table", "Column", "Old_SUM", "New_SUM",
                                  "Old_AVG", "New_AVG", "Details"},
                                 FlattenSeq([i \in 1..Len(per_column) |->
                                                per_column[i].discrepancies]),
                                 FlattenSeq([i \in 1..Len(per_column) |->
                                                per_column[i].detailed]))),
        raised |-> FALSE,
        performed |-> tables]

\* ------------------------------------------------- null value verification
\* SELECT COUNT(*) FROM schema.table WHERE column IS NULL
\* (the string cells of the databases modelled are never NULL)
null_count(db, table, column) ==
    IF get_table_schema(db, table).items[column][1] \in NumericTypes
    THEN Len(SelectSeq(column_values(db, table, column), LAMBDA v : v = None))
    ELSE 0

null_column(table, column) ==
    LET raises == \/ select_raises("old", old_db, table)
                  \/ select_raises("new", new_db, table)
        old_null_count == null_count(old_db, table, column)
        new_null_count == null_count(new_db, table, column)
    IN IF raises
       THEN [discrepancies |-> <<>>, detailed |-> <<>>]
       ELSE [discrepancies |->
                IF old_null_count # new_null_count
                THEN <<[Type |-> "Null Count Mismatch", Table |-> table,
                        Column |-> column,
                        Old_Null_Count |-> old_null_count,
                        New_Null_Count |-> new_null_count,
                        Details |-> "Mismatch in null count"]>>
                ELSE <<>>,
             detailed |->
                <<[Type |-> "Detailed Comparison", Table |-> table,
                   Column |-> column,
                   Old_Null_Count |-> old_null_count,
                   New_Null_Count |-> new_null_count]>>]

null_value_verification(tables) ==
    LET order == SetIter(tables)
        per_table(table) ==
            LET common_columns ==
                    SetIter(Range(get_table_schema(old_db, table).keys)
                            \cap Range(get_table_schema(new_db, table).keys))
            IN [i \in 1..Len(common_columns) |->
                   null_column(table, common_columns[i])]
        per_column ==
            FlattenSeq([i \in 1..Len(order) |-> per_table(order[i])])
        bad == catalog_failed("columns", tables)
    IN IF bad # {}
       THEN [files |-> <<>>, raised |-> TRUE, performed |-> entered(order, bad)]
       ELSE
       [files |-> (<<"null_value_verification.csv">> :>
                      ReportFile({"Type", "Table", "Column", "Old_Null_Count",
                                  "New_Null_Count", "Details"},
                                 FlattenSeq([i \in 1..Len(per_column) |->
                                                per_column[i].discrepancies]),
                                 FlattenSeq([i \in 1..Len(per_column) |->
                                                per_column[i].detailed]))),
        raised |-> FALSE,
        performed |-> tables]

\* -------------------------------------------- stand-alone row comparison
\* sorted(pk_rows, key=lambda x: x[0]): a stable sort on the first PK column.
RECURSIVE sorted_by_first(_)
sorted_by_first(rows) ==
    IF rows = <<>> THEN <<>>
    ELSE LET i == CHOOSE i \in DOMAIN rows :
                      /\ \A j \in DOMAIN rows : rows[i][1] <= rows[j][1]
                      /\ \A j \in 1..(i - 1) : rows[j][1] # rows[i][1]
         IN <<rows[i]>>
            \o sorted_by_first([k \in 1..(Len(rows) - 1) |->
                                   IF k < i THEN rows[k] ELSE rows[k + 1]])

\* The values of the columns pk_columns of row, in that order.
pk_of(columns, pk_columns, row) ==
    [k \in 1..Len(pk_columns) |-> row[IndexOf(columns, pk_columns[k])]]

\* SELECT pk_columns FROM table, sorted on the first PK column.
get_primary_keys(db, table_name, pk_columns) ==
    LET t == db.tables[table_name]
    IN sorted_by_first([i \in 1..Len(t.rows) |->
                           pk_of(t.columns, pk_columns, t.rows[i])])

\* SELECT * FROM table WHERE pk = pk_values; fetchone(): the first such row,
\* or no row (<<>>, falsy as None is) and then no columns.
fetch_row_by_pk(db, table_name, pk_columns, pk_values) ==
    LET t == db.tables[table_name]
        hits == SelectSeq(t.rows,
                          LAMBDA r : pk_of(t.columns, pk_columns, r) = pk_values)
    IN IF hits = <<>> THEN [columns |-> <<>>, row |-> <<>>]
       ELSE [columns |-> t.columns, row |-> hits[1]]

compare_rows(old_row, new_row, columns, pk_values, table_name) ==
    IF new_row = <<>>
    THEN <<[Table |-> table_name, Primary_Key |-> pk_values, Column |-> "N/A",
            Old_Value |-> old_row, New_Value |-> "Row Missing",
            Details |-> "Row exists in old DB but missing in new DB"]>>
    ELSE LET differing == SelectSeq([i \in 1..Len(columns) |-> i],
                                    LAMBDA i : old_row[i] # new_row[i])
         IN [j \in 1..Len(differing) |->
                [Table |-> table_name, Primary_Key |-> pk_values,
                 Column |-> columns[differing[j]],
                 Old_Value |-> old_row[differing[j]],
                 New_Value |-> new_row[differing[j]],
                 Details |-> "Value Mismatch"]]

compare_table(table) ==
    LET pk_columns == get_primary_key_columns(old_db, table)
        pk_rows == get_primary_keys(old_db, table, pk_columns)
        one(pk_values) ==
            LET old == fetch_row_by_pk(old_db, table, pk_columns, pk_values)
                new == fetch_row_by_pk(new_db, table, pk_columns, pk_values)
            IN IF old.row # <<>>
               THEN compare_rows(old.row, new.row, old.columns, pk_values, table)
               ELSE <<[Table |-> table, Primary_Key |-> pk_values,
                       Column |-> "N/A", Old_Value |-> "Row Missing",
                       New_Value |-> new.row,
                       Details |-> "Row exists in new DB but missing in old DB"]>>
    IN FlattenSeq([i \in 1..Len(pk_rows) |-> one(pk_rows[i])])

\* compare_rows indexes new_row by the positions of the old columns: a new
\* row shorter than the old column list raises IndexError.  (A primary-key
\* column missing from the new table makes the new query raise.)
index_error(table) ==
    LET pk_columns == get_primary_key_columns(old_db, table)
        old == old_db.tables[table]
        new == new_db.tables[table]
    IN \/ /\ old.rows # <<>>
          /\ \E c \in Range(pk_columns) : c \notin Range(new.columns)
       \/ /\ Range(pk_columns) \subseteq Range(new.columns)
          /\ Len(new.columns) < Len(old.columns)
          /\ \E i \in DOMAIN old.rows, j \in DOMAIN new.rows :
                pk_of(old.columns, pk_columns, old.rows[i])
                    = pk_of(new.columns, pk_columns, new.rows[j])

\* compare_entire_database: the common tables in sorted order; a table
\* without primary key is logged and skipped.  No query is guarded: the first
\* one that raises ends the script before anything is saved.
compare_entire_database ==
    LET old_tables == get_table_list(old_db)
        new_tables == get_table_list(new_db)
        common == SetToSeq(Range(old_tables) \cap Range(new_tables))
        keyed == SelectSeq(common,
                           LAMBDA t : get_primary_key_columns(old_db, t) # <<>>)
        raises(t) ==
            \/ select_raises("old", old_db, t)
            \/ /\ select_raises("new", new_db, t)
               /\ old_db.tables[t].rows # <<>>
    IN IF \/ \E t \in Range(common) : catalog_raises("constraints", "old", t)
          \/ \E t \in Range(keyed) : raises(t) \/ index_error(t)
       THEN [raised |-> TRUE, mismatches |-> <<>>, tables_without_pk |-> <<>>]
       ELSE [raised |-> FALSE,
             mismatches |->
                FlattenSeq([i \in 1..Len(keyed) |-> compare_table(keyed[i])]),
             tables_without_pk |->
                SelectSeq(common,
                          LAMBDA t : get_primary_key_columns(old_db, t) = <<>>)]

\* ---------------------------------------------------------------- actions
\* main, try: the connections are opened and the common tables computed.
main_common_tables ==
    common_table_set(get_table_list(old_db), get_table_list(new_db))

\* Mutant of step_tables: the phases are handed every old table.
step_tables_all_old == Range(get_table_list(old_db))

\* main, steps: the tables argument of the four per-table phases.
step_tables == common_tables

Unbound == [run |-> 0, open |-> FALSE]

\* get_oracle_connection in run r: the connection returned.
get_oracle_connection(r) == [run |-> r, open |-> TRUE]

\* close_connection(connection): close() of a connection already closed
\* raises, which close_connection catches; the connection stays closed.
close_connection(connection) == [connection EXCEPT !.open = FALSE]

\* main, the start of the try block of a run: old_conn and new_conn are
\* assigned in turn; a connect that raises leaves its variable and the one
\* after it as they were and goes to the except branch, then to finally.
StartRun ==
    /\ program = "audit"
    /\ pc = "connect"
    /\ step' = 0
    /\ IF <<run_num, "old">> \in conn_fails
       THEN /\ UNCHANGED <<old_conn, new_conn, common_tables>>
            /\ error_runs' = error_runs \cup {run_num}
            /\ pc' = "finally"
       ELSE IF <<run_num, "new">> \in conn_fails
       THEN /\ old_conn' = get_oracle_connection(run_num)
            /\ UNCHANGED <<new_conn, common_tables>>
            /\ error_runs' = error_runs \cup {run_num}
            /\ pc' = "finally"
       ELSE /\ old_conn' = get_oracle_connection(run_num)
            /\ new_conn' = get_oracle_connection(run_num)
            /\ common_tables' = main_common_tables
            /\ UNCHANGED error_runs
            /\ pc' = "steps"
    /\ UNCHANGED <<run_num, results_dir, performed, conn_fails, close_calls>>
    /\ UNCHANGED env_vars
    /\ UNCHANGED cmp_vars
    /\ UNCHANGED batch_vars
    /\ UNCHANGED task_vars

\* Mutant of executed: the statements empty the tables they read.
executed_deleting(db) ==
    [db EXCEPT !.tables = [t \in DOMAIN db.tables |->
                              [db.tables[t] EXCEPT !.rows = <<>>]]]

\* The database after the statements of a phase were executed on it: every
\* statement a phase passes to cursor.execute is a SELECT, and no phase
\* commits, so the database is as before.
executed(db) == db

\* main, "for task_name, function, args in steps": step number index calls
\* the phase; out is what the phase does.  An exception leaves the loop for
\* the except branch and then finally.
RunStep(index, name, out) ==
    /\ program = "audit"
    /\ pc = "steps"
    /\ step = index
    /\ results_dir' = [results_dir EXCEPT ![run_num] = out.files @@ @]
    /\ performed' = performed \cup {<<run_num, name, t>> : t \in out.performed}
    /\ error_runs' = IF out.raised THEN error_runs \cup {run_num} ELSE error_runs
    /\ step' = IF out.raised THEN step ELSE step + 1
    /\ pc' = IF out.raised \/ step + 1 = total_steps THEN "finally" ELSE "steps"
    /\ UNCHANGED <<run_num, common_tables>>
    /\ old_db' = executed(old_db)
    /\ new_db' = executed(new_db)
    /\ UNCHANGED <<unreadable, failing, hash_seed, program, params_list>>
    /\ UNCHANGED cmp_vars
    /\ UNCHANGED batch_vars
    /\ UNCHANGED task_vars
    /\ UNCHANGED conn_vars

MiscellaneousDiscrepancies ==
    RunStep(0, "miscellaneous_discrepancies", miscellaneous_discrepancies)

SchemaValidation == RunStep(1, "schema_validation", schema_validation)

CountValidation == RunStep(2, "count_validation", count_validation)

AggregateFunctionValidation ==
    RunStep(3, "aggregate_function_validation",
            aggregate_function_validation(step_tables))

SqlJoinOperation ==
    RunStep(4, "sql_join_operation", sql_join_operation(step_tables))

ValueByValueCheck ==
    RunStep(5, "value_by_value_check", value_by_value_check(step_tables))

NullValueVerification ==
    RunStep(6, "null_value_verification", null_value_verification(step_tables))

\* main, finally: close_connection(old_conn), then close_connection(new_conn),
\* on whatever the two locals hold; reading a local never assigned raises
\* UnboundLocalError, which leaves main.  Otherwise the next run, if any,
\* starts.
Finally ==
    /\ program = "audit"
    /\ pc = "finally"
    /\ IF old_conn = Unbound
       THEN /\ pc' = "crashed"
            /\ UNCHANGED <<run_num, old_conn, new_conn, close_calls>>
       ELSE IF new_conn = Unbound
       THEN /\ pc' = "crashed"
            /\ old_conn' = close_connection(old_conn)
            /\ close_calls' = close_calls \cup {<<run_num, old_conn.run>>}
            /\ UNCHANGED <<run_num, new_conn>>
       ELSE /\ pc' = IF run_num = Len(params_list) THEN "done" ELSE "connect"
            /\ run_num' = run_num + 1
            /\ old_conn' = close_connection(old_conn)
            /\ new_conn' = close_connection(new_conn)
            /\ close_calls' = close_calls \cup {<<run_num, old_conn.run>>,
                                                 <<run_num, new_conn.run>>}
    /\ UNCHANGED <<step, common_tables, results_dir, performed, error_runs,
                   conn_fails>>
    /\ UNCHANGED env_vars
    /\ UNCHANGED cmp_vars
    /\ UNCHANGED batch_vars
    /\ UNCHANGED task_vars

\* Ctrl-C while value_by_value_check runs, the only way to cancel a run: the
\* KeyboardInterrupt is raised in the loop over the tables, after k of them
\* were compared.  It is not an Exception, so main's except branch does not
\* run; finally closes the connections and the process ends.  The records
\* held in value_mismatch_results are not written.
KeyboardInterrupt ==
    /\ program = "audit"
    /\ pc = "steps"
    /\ step = 5
    /\ LET order == SetIter(step_tables)
       IN \E k \in 0..Len(order) :
              performed' = performed \cup
                  {<<run_num, "value_by_value_check", order[i]>> : i \in 1..k}
    /\ pc' = "interrupted"
    /\ old_conn' = close_connection(old_conn)
    /\ new_conn' = close_connection(new_conn)
    /\ close_calls' = close_calls \cup {<<run_num, old_conn.run>>,
                                         <<run_num, new_conn.run>>}
    /\ UNCHANGED <<run_num, step, common_tables, results_dir, error_runs,
                   conn_fails>>
    /\ UNCHANGED env_vars
    /\ UNCHANGED cmp_vars
    /\ UNCHANGED batch_vars
    /\ UNCHANGED task_vars

\* "Value by value comparison": main calls compare_entire_database, which
\* saves the mismatches and the tables without primary key.
CompareEntireDatabase ==
    /\ program = "compare"
    /\ cmp_pc = "start"
    /\ cmp_pc' = IF compare_entire_database.raised THEN "raised" ELSE "done"
    /\ database_mismatches' = compare_entire_database.mismatches
    /\ tables_without_pk' = compare_entire_database.tables_without_pk
    /\ UNCHANGED env_vars
    /\ UNCHANGED main_vars
    /\ UNCHANGED batch_vars
    /\ UNCHANGED task_vars
    /\ UNCHANGED conn_vars

\* save_results_in_batches(results, output_dir, prefix, batch_size) called on
\* a list of records: the files it leaves in output_dir, and whether it
\* returned or raised.
SaveResultsInBatches ==
    /\ program = "save_results_in_batches"
    /\ batch_pc = "call"
    /\ LET saved == save_results_in_batches(call.results, "value_by_value_check",
                                            call.batch_size)
       IN /\ output_dir' = saved.files
          /\ batch_pc' = IF saved.raised THEN "raised" ELSE "returned"
    /\ UNCHANGED call
    /\ UNCHANGED env_vars
    /\ UNCHANGED main_vars
    /\ UNCHANGED cmp_vars
    /\ UNCHANGED conn_vars
    /\ UNCHANGED task_vars

\* ------------------------------------------------------ notify_on_completion
task_total_steps == 7

\* process_task: steps, the messages of the loop.
task_messages ==
    <<"Validating Schema...", "Checking Row Counts...",
      "Performing Aggregate Checks...", "Running SQL Join Validations...",
      "Comparing Data...", "Checking for NULL Values...">>

\* Mutant of progress_percent: the step is taken out of the messages left.
progress_percent_of_messages(step_number, total) ==
    (step_number * 100) \div (total - 1)

\* int((step / total_steps) * 100): the percentage, truncated.
progress_percent(step_number, total) == (step_number * 100) \div total

other_vars == <<env_vars, main_vars, cmp_vars, batch_vars, conn_vars>>

\* process_task up to the loop: the simulated connection and os.makedirs,
\* which may raise; the except branch then sends the error and the thread
\* ends.
ProcessTaskSetup ==
    /\ program = "notify_on_completion"
    /\ task_pc = "start"
    /\ \E raised \in BOOLEAN : task_pc' = IF raised THEN "failed" ELSE "loop"
    /\ UNCHANGED <<progress, task_step, status_reads>>
    /\ UNCHANGED other_vars

\* for step, message in enumerate(steps, 1): the next step and the
\* assignment to the global progress.
ProcessTaskAssign ==
    /\ program = "notify_on_completion"
    /\ task_pc = "loop"
    /\ task_step < Len(task_messages)
    /\ task_step' = task_step + 1
    /\ progress' = progress_percent(task_step + 1, task_total_steps)
    /\ task_pc' = "notify"
    /\ UNCHANGED status_reads
    /\ UNCHANGED other_vars

\* The progress notification of the step and the sleep; after the last
\* message the loop is left.
ProcessTaskNotify ==
    /\ program = "notify_on_completion"
    /\ task_pc = "notify"
    /\ task_pc' = IF task_step = Len(task_messages) THEN "completing" ELSE "loop"
    /\ UNCHANGED <<progress, task_step, status_reads>>
    /\ UNCHANGED other_vars

\* "Data Migration Audit Completed Successfully!" is sent.
ProcessTaskCompleted ==
    /\ program = "notify_on_completion"
    /\ task_pc = "completing"
    /\ task_pc' = "completed"
    /\ UNCHANGED <<progress, task_step, status_reads>>
    /\ UNCHANGED other_vars

\* receive_telegram_update for a /status message, served at any moment
\* while the task thread runs or after it: the global progress is read and
\* sent.
ReceiveTelegramUpdate ==
    /\ program = "notify_on_completion"
    /\ Len(status_reads) < MaxReads
    /\ status_reads' = Append(status_reads, progress)
    /\ UNCHANGED <<progress, task_pc, task_step>>
    /\ UNCHANGED other_vars

Next ==
    \/ StartRun
    \/ MiscellaneousDiscrepancies
    \/ SchemaValidation
    \/ CountValidation
    \/ AggregateFunctionValidation
    \/ SqlJoinOperation
    \/ ValueByValueCheck
    \/ NullValueVerification
    \/ Finally
    \/ KeyboardInterrupt
    \/ CompareEntireDatabase
    \/ SaveResultsInBatches
    \/ ProcessTaskSetup
    \/ ProcessTaskAssign
    \/ ProcessTaskNotify
    \/ ProcessTaskCompleted
    \/ ReceiveTelegramUpdate

\* ------------------------------------------------------------ initial states
\* chunk_size as prompt_user_for_info returns it.
ChunkSizes == {1, 7, DefaultChunkSize}

\* The state at the start of either script, the databases drawn from dbs
\* (pairs <<old, new>>), the unreadable tables from unread, the other
\* failing queries from faults and the runs requested from params.
\* The state before main (or the stand-alone script) starts; fails is the
\* set of possible sets of connects that raise.
InitConnect(dbs, unread, faults, params, fails) ==
    /\ \E p \in dbs : old_db = p[1] /\ new_db = p[2]
    /\ unreadable \in unread
    /\ failing \in faults
    /\ hash_seed \in 0..MaxSeed
    /\ program \in {"audit", "compare"}
    /\ params_list \in params
    /\ run_num = 1
    /\ pc = "connect"
    /\ step = 0
    /\ common_tables = {}
    /\ results_dir = [r \in 1..NumRuns |-> <<>>]
    /\ performed = {}
    /\ error_runs = {}
    /\ cmp_pc = "start"
    /\ database_mismatches = <<>>
    /\ tables_without_pk = <<>>
    /\ call = [results |-> <<>>, batch_size |-> BatchSize]
    /\ batch_pc = "idle"
    /\ output_dir = <<>>
    /\ conn_fails \in fails
    /\ old_conn = Unbound
    /\ new_conn = Unbound
    /\ close_calls = {}
    /\ progress = 0
    /\ task_pc = "idle"
    /\ task_step = 0
    /\ status_reads = <<>>

\* The same with every connect succeeding.
InitPrograms(dbs, unread, faults, params) ==
    InitConnect(dbs, unread, faults, params, {{}})

\* The state before save_results_in_batches is called with one of calls, a
\* set of [results, batch_size] records; no database is involved.
InitCall(calls) ==
    /\ old_db = Db(<<>>)
    /\ new_db = Db(<<>>)
    /\ unreadable = {}
    /\ failing = {}
    /\ hash_seed = 0
    /\ program = "save_results_in_batches"
    /\ params_list = <<[chunk_size |-> DefaultChunkSize]>>
    /\ run_num = 1
    /\ pc = "connect"
    /\ step = 0
    /\ common_tables = {}
    /\ results_dir = [r \in 1..NumRuns |-> <<>>]
    /\ performed = {}
    /\ error_runs = {}
    /\ cmp_pc = "start"
    /\ database_mismatches = <<>>
    /\ tables_without_pk = <<>>
    /\ call \in calls
    /\ batch_pc = "call"
    /\ output_dir = <<>>
    /\ conn_fails = {}
    /\ old_conn = Unbound
    /\ new_conn = Unbound
    /\ close_calls = {}
    /\ progress = 0
    /\ task_pc = "idle"
    /\ task_step = 0
    /\ status_reads = <<>>

\* A missing-row record as value_by_value_check builds it.
missing_row_record(table, row) ==
    [Table |-> table,
     Type |-> "Missing Row in New",
     Details |-> <<"Row missing in the new database: ", row>>]

\* One call with the default batch size, as value_by_value_check makes it.
DefaultCall ==
    {[results |-> <<missing_row_record("ORDERS", Row(1, 100))>>,
      batch_size |-> BatchSize]}

\* The state when notify_on_completion.py has started its task thread and
\* its server; no database is involved.
InitTask ==
    /\ old_db = Db(<<>>)
    /\ new_db = Db(<<>>)
    /\ unreadable = {}
    /\ failing = {}
    /\ hash_seed = 0
    /\ program = "notify_on_completion"
    /\ params_list = <<[chunk_size |-> DefaultChunkSize]>>
    /\ run_num = 1
    /\ pc = "connect"
    /\ step = 0
    /\ common_tables = {}
    /\ results_dir = [r \in 1..NumRuns |-> <<>>]
    /\ performed = {}
    /\ error_runs = {}
    /\ cmp_pc = "start"
    /\ database_mismatches = <<>>
    /\ tables_without_pk = <<>>
    /\ call = [results |-> <<>>, batch_size |-> BatchSize]
    /\ batch_pc = "idle"
    /\ output_dir = <<>>
    /\ conn_fails = {}
    /\ old_conn = Unbound
    /\ new_conn = Unbound
    /\ close_calls = {}
    /\ progress = 0
    /\ task_pc = "start"
    /\ task_step = 0
    /\ status_reads = <<>>

\* The functions and the bot script on their own.
InitAlone == InitCall(DefaultCall) \/ InitTask

InitWith(dbs, unread, faults, params) ==
    \/ InitPrograms(dbs, unread, faults, params)
    \/ InitAlone

\* The same with every catalog and aggregate query answered.
InitFrom(dbs, unread, params) == InitWith(dbs, unread, {{}}, params)

OneRun == {<<[chunk_size |-> c]>> : c \in ChunkSizes}

BaseRows == <<Row(1, 100), Row(2, 200)>>

\* Any two sets of tables, every table with the same two rows.
TableSetDbs ==
    {<<Db([t \in A |-> StdTable(BaseRows)]), Db([t \in B |-> StdTable(BaseRows)])>> :
        A \in SUBSET TableNames, B \in SUBSET TableNames}

Init == InitFrom(TableSetDbs, {{}}, OneRun)

Spec == Init /\ [][Next]_vars

\* One table, ORDERS, on both sides.
OrdersDbs(olds, news) ==
    {<<Db("ORDERS" :> o), Db("ORDERS" :> n)>> : o \in olds, n \in news}

\* Row reconciliation: ORDERS(ID, NAME, AMOUNT) with primary key ID holds any
\* rows with ids in 1..MaxId on either side, a row's amount one of two.
RowAmounts == [i \in 1..MaxId |-> {100 * i, 100 * i + 50}]

RowDbs ==
    OrdersDbs({StdTable(r) : r \in KeyedRows(MaxId, RowAmounts)},
              {StdTable(r) : r \in KeyedRows(MaxId, RowAmounts)})

InitRows == InitFrom(RowDbs, {{}}, OneRun)

SpecRows == InitRows /\ [][Next]_vars

\* One changed cell: the old table holds the rows 1..n, the new table the
\* same rows but for one non-key cell (NAME or AMOUNT) of one row.
FullRows(n) == [i \in 1..n |-> Row(i, 100 * i)]

OneCellChanges(n) ==
    {[FullRows(n) EXCEPT ![p[1]][2] = Names[p[2]]] :
        p \in {q \in (1..n) \X (1..MaxId) : q[1] # q[2]}}
    \cup {[FullRows(n) EXCEPT ![p[1]][3] = p[2]] :
            p \in {q \in (1..n) \X ({None} \cup UNION Range(RowAmounts)) :
                      q[2] \in {None, 100 * q[1] + 50}}}

OneCellDbs ==
    UNION {OrdersDbs({StdTable(FullRows(n))},
                     {StdTable(r) : r \in OneCellChanges(n)}) : n \in 1..MaxId}

InitOneCell == InitFrom(OneCellDbs, {{}}, OneRun)

SpecOneCell == InitOneCell /\ [][Next]_vars

\* Several runs against the same pair of databases, each with its chunk size.
Runs ==
    UNION {[1..n -> {[chunk_size |-> c] : c \in ChunkSizes}] : n \in 1..NumRuns}

ChunkDbs ==
    OrdersDbs({StdTable(FullRows(MaxId))},
              {StdTable(r) : r \in KeyedRows(MaxId, RowAmounts)})

InitChunk == InitFrom(ChunkDbs, {{}}, Runs)

SpecChunk == InitChunk /\ [][Next]_vars

\* Column structure and fetch failures: ITEMS and ORDERS on both sides; the
\* column list of ORDERS is, per side, the standard one, one with the last
\* column renamed or one without it, and any SELECT may be refused.
ColumnVariants ==
    {[columns |-> StdColumns, types |-> StdTypes],
     [columns |-> <<"ID", "NAME", "TOTAL">>, types |-> StdTypes],
     [columns |-> <<"ID", "NAME">>, types |-> SubSeq(StdTypes, 1, 2)]}

VariantTable(v, rows) ==
    Tbl(v.columns, v.types, <<"ID">>,
        [i \in 1..Len(rows) |-> SubSeq(rows[i], 1, Len(v.columns))])

FetchDbs ==
    {<<Db(("ITEMS" :> StdTable(BaseRows)) @@ ("ORDERS" :> VariantTable(ov, BaseRows))),
       Db(("ITEMS" :> StdTable(<<Row(1, 100)>>)) @@ ("ORDERS" :> VariantTable(nv, nr)))>> :
        ov \in ColumnVariants, nv \in ColumnVariants,
        nr \in {BaseRows, <<Row(1, 100)>>}}

InitFetch ==
    InitFrom(FetchDbs, SUBSET ({"old", "new"} \X {"ITEMS", "ORDERS"}), OneRun)

SpecFetch == InitFetch /\ [][Next]_vars

\* Aggregates: ORDERS with any rows with ids in 1..MaxId on either side, the
\* amount of row i being 100*i or NULL; AMOUNT is a NUMBER in the old schema
\* and a NUMBER or a VARCHAR2 in the new one.
AggAmounts == [i \in 1..MaxId |-> {100 * i, None}]

AggDbs ==
    OrdersDbs({StdTable(r) : r \in KeyedRows(MaxId, AggAmounts)},
              {Tbl(StdColumns, [StdTypes EXCEPT ![3] = <<ty, 22>>], <<"ID">>, r) :
                  r \in KeyedRows(MaxId, AggAmounts), ty \in {"NUMBER", "VARCHAR2"}})

InitAgg == InitFrom(AggDbs, {{}}, {<<[chunk_size |-> DefaultChunkSize]>>})

SpecAgg == InitAgg /\ [][Next]_vars

\* Failing queries: ITEMS and ORDERS on both sides, ORDERS with one or two
\* rows in the new database; up to two of the catalog queries about a table
\* and of the SUM/AVG queries on a column of ORDERS raise, and one SELECT on
\* the rows may be refused.
FaultDbs ==
    {<<Db(("ITEMS" :> StdTable(BaseRows)) @@ ("ORDERS" :> StdTable(BaseRows))),
       Db(("ITEMS" :> StdTable(BaseRows)) @@ ("ORDERS" :> StdTable(nr)))>> :
        nr \in {BaseRows, <<Row(1, 150)>>}}

QueryFaults ==
    ({"columns", "indexes"} \X {"old", "new"} \X {"ITEMS", "ORDERS"} \X {""})
    \cup ({"constraints"} \X {"old"} \X {"ITEMS", "ORDERS"} \X {""})
    \cup ({"aggregate"} \X {"old", "new"} \X {"ORDERS"} \X {"ID", "AMOUNT"})

InitFaults ==
    InitWith(FaultDbs,
             {{}, {<<"old", "ORDERS">>}, {<<"new", "ITEMS">>}},
             {f \in SUBSET QueryFaults : Cardinality(f) <= 2},
             OneRun)

SpecFaults == InitFaults /\ [][Next]_vars

\* ------------------------------------------------------ reading the output
\* Step number index of run r of the audit has completed without an error.
PhaseDone(r, index) ==
    /\ program = "audit"
    /\ r \notin error_runs
    /\ \/ run_num > r
       \/ run_num = r /\ pc \in {"steps", "finally"} /\ step > index

\* Run r of the audit is over.
RunOver(r) == program = "audit" /\ run_num > r

\* The records run r wrote under prefix, the batches in index order.
Emitted(r, prefix) ==
    LET n == Cardinality({f \in DOMAIN results_dir[r] :
                             Len(f) = 3 /\ f[1] = prefix})
    IN FlattenSeq([i \in 1..n |-> results_dir[r][<<prefix, "_batch_", i>>].rows])

\* The discrepancy rows of the report file name of run r.
Report(r, name) == results_dir[r][<<name>>].rows

OfType(records, type) == SelectSeq(records, LAMBDA x : x.Type = type)

OfTable(records, table) == SelectSeq(records, LAMBDA x : x.Table = table)

Count(records, type, table) == Len(OfTable(OfType(records, type), table))

OldTables == DOMAIN old_db.tables

NewTables == DOMAIN new_db.tables

\* The primary-key value of a row of table on the old side's key columns.
KeyOf(table, row) ==
    pk_of(old_db.tables[table].columns,
          get_primary_key_columns(old_db, table), row)

\* The primary-key values held by table in db.
KeysIn(db, table) ==
    {pk_of(db.tables[table].columns, get_primary_key_columns(db, table),
           db.tables[table].rows[i]) : i \in DOMAIN db.tables[table].rows}

\* The primary-key values the records of the given type report for table.
KeysReported(records, type, table) ==
    LET recs == OfTable(OfType(records, type), table)
    IN {KeyOf(table, recs[i].Details[2]) : i \in DOMAIN recs}

\* ------------------------------------------------------------------ claims
\* The example of the specification: ORDERS(ID, NAME, AMOUNT), key ID, old
\* rows {1: 100, 2: 200}, new rows {1: 150, 3: 300}.
ExampleOld == <<Row(1, 100), Row(2, 200)>>

ExampleNew == <<Row(1, 150), Row(3, 300)>>

IsExample ==
    /\ OldTables = {"ORDERS"}
    /\ NewTables = {"ORDERS"}
    /\ old_db.tables["ORDERS"] = StdTable(ExampleOld)
    /\ new_db.tables["ORDERS"] = StdTable(ExampleNew)

\* C1: on the example, the value-by-value check of a run emits one cell
\* mismatch (key 1, column AMOUNT, old 100, new 150), one missing row (key 2)
\* and one extra row (key 3), and nothing else for the rows of ORDERS.
C1_EndToEndExample ==
    \A r \in 1..NumRuns :
        (IsExample /\ PhaseDone(r, 5)) =>
            LET e == Emitted(r, "value_by_value_check")
                cell == OfType(e, "Cell Value Mismatch")
            IN /\ Len(e) = 3
               /\ Len(cell) = 1
               /\ cell[1].Column = "AMOUNT"
               /\ KeyOf("ORDERS", cell[1].Row_Key) = <<1>>
               /\ cell[1].Old_Value = 100
               /\ cell[1].New_Value = 150
               /\ KeysReported(e, "Missing Row in New", "ORDERS") = {<<2>>}
               /\ Count(e, "Missing Row in New", "ORDERS") = 1
               /\ KeysReported(e, "Extra Row in New", "ORDERS") = {<<3>>}
               /\ Count(e, "Extra Row in New", "ORDERS") = 1

\* What the check emits on the example: keyed by the whole row, the changed
\* row 1 is reported as missing and as extra, next to rows 2 and 3.
C1_ExampleAsEmitted ==
    \A r \in 1..NumRuns :
        (IsExample /\ PhaseDone(r, 5)) =>
            LET e == Emitted(r, "value_by_value_check")
            IN /\ Len(e) = 4
               /\ OfType(e, "Cell Value Mismatch") = <<>>
               /\ KeysReported(e, "Missing Row in New", "ORDERS") = {<<1>>, <<2>>}
               /\ KeysReported(e, "Extra Row in New", "ORDERS") = {<<1>>, <<3>>}

\* The tables hold the same keys and differ in exactly one non-key cell.
OneCellDiffers(table) ==
    LET o == old_db.tables[table]
        n == new_db.tables[table]
    IN /\ o.columns = n.columns
       /\ Len(o.rows) = Len(n.rows)
       /\ Cardinality({p \in (DOMAIN o.rows) \X (DOMAIN o.columns) :
                          o.rows[p[1]][p[2]] # n.rows[p[1]][p[2]]}) = 1
       /\ \A i \in DOMAIN o.rows : KeyOf(table, o.rows[i]) = KeyOf(table, n.rows[i])

\* C2: when the two tables hold the same keys and differ in one non-key
\* cell, the value-by-value check emits exactly one cell mismatch, naming
\* that key and column, and no missing or extra row.
C2_OneCellOneMismatch ==
    \A r \in 1..NumRuns :
        (PhaseDone(r, 5) /\ "ORDERS" \in common_tables /\ OneCellDiffers("ORDERS")) =>
            LET e == Emitted(r, "value_by_value_check")
                o == old_db.tables["ORDERS"]
                n == new_db.tables["ORDERS"]
                p == CHOOSE p \in (DOMAIN o.rows) \X (DOMAIN o.columns) :
                        o.rows[p[1]][p[2]] # n.rows[p[1]][p[2]]
                cell == OfType(e, "Cell Value Mismatch")
            IN /\ Len(e) = 1
               /\ Len(cell) = 1
               /\ cell[1].Column = o.columns[p[2]]
               /\ KeyOf("ORDERS", cell[1].Row_Key) = KeyOf("ORDERS", o.rows[p[1]])
               /\ Count(e, "Missing Row in New", "ORDERS") = 0
               /\ Count(e, "Extra Row in New", "ORDERS") = 0

\* What the check emits for one changed cell: the row as missing and as
\* extra, and no cell mismatch.
C2_OneCellAsEmitted ==
    \A r \in 1..NumRuns :
        (PhaseDone(r, 5) /\ "ORDERS" \in common_tables /\ OneCellDiffers("ORDERS")) =>
            LET e == Emitted(r, "value_by_value_check")
            IN /\ Len(e) = 2
               /\ OfType(e, "Cell Value Mismatch") = <<>>
               /\ Count(e, "Missing Row in New", "ORDERS") = 1
               /\ Count(e, "Extra Row in New", "ORDERS") = 1

VbvFile == "value_by_value_check"

\* Both SELECTs of the table succeed.
Fetched(table) ==
    /\ ~select_raises("old", old_db, table)
    /\ ~select_raises("new", new_db, table)

\* C3: a common table whose two sides are fetched and hold the same columns
\* and the same rows gets no record from the value-by-value check, whatever
\* chunk size the run was given.
C3_IdenticalTablesClean ==
    \A r \in 1..NumRuns : \A t \in common_tables :
        (/\ PhaseDone(r, 5)
         /\ Fetched(t)
         /\ old_db.tables[t].columns = new_db.tables[t].columns
         /\ old_db.tables[t].rows = new_db.tables[t].rows) =>
            OfTable(Emitted(r, VbvFile), t) = <<>>

\* Identical ORDERS tables of several rows, checked by a run whose chunk size
\* is smaller than the table.
C3_Witness ==
    /\ PhaseDone(1, 5)
    /\ "ORDERS" \in common_tables
    /\ Fetched("ORDERS")
    /\ old_db.tables["ORDERS"] = new_db.tables["ORDERS"]
    /\ Len(old_db.tables["ORDERS"].rows) > params_list[1].chunk_size
    /\ Emitted(1, VbvFile) = <<>>

\* C4: the runs against the same pair of databases emit the same set of
\* value-by-value records, whatever their chunk sizes.
C4_ChunkSizeIrrelevant ==
    \A r1 \in 1..NumRuns : \A r2 \in 1..NumRuns :
        (PhaseDone(r1, 5) /\ PhaseDone(r2, 5)) =>
            Range(Emitted(r1, VbvFile)) = Range(Emitted(r2, VbvFile))

\* Two completed runs, one with a chunk size below the table's size and one
\* with a chunk size above it, on tables that differ.
C4_Witness ==
    /\ PhaseDone(1, 5)
    /\ PhaseDone(2, 5)
    /\ params_list[1].chunk_size < Len(old_db.tables["ORDERS"].rows)
    /\ params_list[2].chunk_size > Len(old_db.tables["ORDERS"].rows)
    /\ Len(new_db.tables["ORDERS"].rows) > params_list[1].chunk_size
    /\ Emitted(1, VbvFile) # <<>>

\* The rows the records of the given type report for table.
RowsReported(records, type, table) ==
    LET recs == OfTable(OfType(records, type), table)
    IN {recs[i].Details[2] : i \in DOMAIN recs}

\* C5: for a table fetched with the same columns on both sides, every
\* primary-key value held only by the old side gets exactly one missing-row
\* record, every one held only by the new side exactly one extra-row record,
\* and a key held by both sides gets neither.
C5_MissingExtraExactlyOnce ==
    \A r \in 1..NumRuns : \A t \in common_tables :
        (/\ PhaseDone(r, 5)
         /\ Fetched(t)
         /\ old_db.tables[t].columns = new_db.tables[t].columns) =>
            LET e == Emitted(r, VbvFile)
                A == KeysIn(old_db, t)
                B == KeysIn(new_db, t)
            IN /\ KeysReported(e, "Missing Row in New", t) = A \ B
               /\ Count(e, "Missing Row in New", t) = Cardinality(A \ B)
               /\ KeysReported(e, "Extra Row in New", t) = B \ A
               /\ Count(e, "Extra Row in New", t) = Cardinality(B \ A)

\* What the check emits: the statement of C5 with the whole row as the key.
C5_WholeRowAsEmitted ==
    \A r \in 1..NumRuns : \A t \in common_tables :
        (/\ PhaseDone(r, 5)
         /\ Fetched(t)
         /\ old_db.tables[t].columns = new_db.tables[t].columns) =>
            LET e == Emitted(r, VbvFile)
                A == Range(old_db.tables[t].rows)
                B == Range(new_db.tables[t].rows)
            IN /\ RowsReported(e, "Missing Row in New", t) = A \ B
               /\ Count(e, "Missing Row in New", t) = Cardinality(A \ B)
               /\ RowsReported(e, "Extra Row in New", t) = B \ A
               /\ Count(e, "Extra Row in New", t) = Cardinality(B \ A)

\* The tables a report names in records of the given type, each name once.
TablesNamedOnce(records, type) ==
    {t \in TableNames : Count(records, type, t) = 1}

TablesNamed(records, type) ==
    {t \in TableNames : Count(records, type, t) >= 1}

\* C6: with A the old table set and B the new one, the hygiene report and
\* the count report name exactly the tables of A \ B as missing and those of
\* B \ A as extra, each once, the tables taken into the per-table phases
\* are exactly A \cap B, and the three sets partition A \cup B.
C6_StructuralDiff ==
    \A r \in 1..NumRuns :
        /\ PhaseDone(r, 0) =>
              LET h == Report(r, "table_hygiene_check.csv")
              IN /\ TablesNamed(h, "Missing Table") = OldTables \ NewTables
                 /\ TablesNamedOnce(h, "Missing Table") = OldTables \ NewTables
                 /\ TablesNamed(h, "Extra Table") = NewTables \ OldTables
                 /\ TablesNamedOnce(h, "Extra Table") = NewTables \ OldTables
                 /\ common_tables = OldTables \cap NewTables
                 /\ {t \in TableNames :
                        <<r, "miscellaneous_discrepancies", t>> \in performed}
                       = OldTables \cap NewTables
                 /\ TablesNamed(h, "Missing Table") \cap TablesNamed(h, "Extra Table") = {}
                 /\ TablesNamed(h, "Missing Table") \cap common_tables = {}
                 /\ TablesNamed(h, "Extra Table") \cap common_tables = {}
                 /\ TablesNamed(h, "Missing Table") \cup TablesNamed(h, "Extra Table")
                        \cup common_tables = OldTables \cup NewTables
        /\ PhaseDone(r, 2) =>
              LET c == Report(r, "count_validation.csv")
              IN /\ TablesNamed(c, "Missing Table") = OldTables \ NewTables
                 /\ TablesNamedOnce(c, "Missing Table") = OldTables \ NewTables
                 /\ TablesNamed(c, "Extra Table") = NewTables \ OldTables
                 /\ TablesNamedOnce(c, "Extra Table") = NewTables \ OldTables
                 /\ {t \in TableNames : <<r, "count_validation", t>> \in performed}
                       = OldTables \cap NewTables

\* A run past the count validation on databases with a table only in the
\* old one, a table only in the new one and a table in both.
C6_Witness ==
    /\ PhaseDone(1, 2)
    /\ OldTables \ NewTables # {}
    /\ NewTables \ OldTables # {}
    /\ OldTables \cap NewTables # {}

PerTablePhases ==
    {"aggregate_function_validation", "sql_join_operation",
     "value_by_value_check", "null_value_verification"}

\* C7: a table of the old database that the new one lacks is never handed to
\* the aggregate, join, value-by-value or null-count phase, and once the run
\* is over it has raised no error, the hygiene report and the count report
\* each hold exactly one "Missing Table" record for the table, and none of
\* the four per-table outputs holds a record about it.
C7_OldOnlyTable ==
    \A r \in 1..NumRuns : \A t \in OldTables \ NewTables :
        /\ \A ph \in PerTablePhases : <<r, ph, t>> \notin performed
        /\ RunOver(r) =>
              /\ r \notin error_runs
              /\ Count(Report(r, "table_hygiene_check.csv"), "Missing Table", t) = 1
              /\ OfTable(Report(r, "table_hygiene_check.csv"), t)
                    = OfType(OfTable(Report(r, "table_hygiene_check.csv"), t),
                             "Missing Table")
              /\ Count(Report(r, "count_validation.csv"), "Missing Table", t) = 1
              /\ Len(OfTable(Report(r, "count_validation.csv"), t)) = 1
              /\ OfTable(Report(r, "aggregate_function_validation.csv"), t) = <<>>
              /\ OfTable(Report(r, "null_value_verification.csv"), t) = <<>>
              /\ OfTable(Emitted(r, "sql_join_comparison"), t) = <<>>
              /\ OfTable(Emitted(r, VbvFile), t) = <<>>

\* A finished run on databases with a table only in the old one, next to a
\* common table that the four phases were handed.
C7_Witness ==
    /\ RunOver(1)
    /\ OldTables \ NewTables # {}
    /\ \E t \in OldTables \cap NewTables :
          \A ph \in PerTablePhases : <<1, ph, t>> \in performed

\* SUM and AVG of a column as SQL defines them, NULLs left out: the sum and
\* the number of the values that are not NULL.
SumCount(db, table, col) ==
    LET nn == non_null(column_values(db, table, col))
    IN [sum |-> SumSeq(nn), count |-> Len(nn)]

\* SUM or AVG differ; both are NULL when no value is left.
SumOrAvgDiffer(o, n) ==
    IF o.count = 0 \/ n.count = 0
    THEN o.count # n.count
    ELSE o.sum # n.sum \/ o.sum * n.count # n.sum * o.count

\* The bag of the values of a sequence.
BagOf(values) ==
    [v \in Range(values) |-> Cardinality({i \in DOMAIN values : values[i] = v})]

IsNumeric(db, table, col) ==
    /\ col \in Range(db.tables[table].columns)
    /\ db.tables[table].types[IndexOf(db.tables[table].columns, col)][1]
           \in NumericTypes

\* C8: for a common table, a column numeric on both sides gets exactly one
\* "Aggregate Mismatch" record when the SUMs or the AVGs over the non-NULL
\* values differ and none when they agree, equal bags of values giving none;
\* a column not numeric on both sides gets none.
C8_AggregateMismatchIff ==
    \A r \in 1..NumRuns : \A t \in common_tables :
        PhaseDone(r, 3) =>
            \A col \in Range(old_db.tables[t].columns) :
                LET recs == SelectSeq(OfTable(OfType(
                                Report(r, "aggregate_function_validation.csv"),
                                "Aggregate Mismatch"), t),
                                LAMBDA x : x.Column = col)
                IN IF IsNumeric(old_db, t, col) /\ IsNumeric(new_db, t, col)
                   THEN LET o == SumCount(old_db, t, col)
                            n == SumCount(new_db, t, col)
                        IN /\ Len(recs) = IF SumOrAvgDiffer(o, n) THEN 1 ELSE 0
                           /\ BagOf(column_values(old_db, t, col))
                                 = BagOf(column_values(new_db, t, col))
                                 => recs = <<>>
                   ELSE recs = <<>>

\* A run whose ORDERS.AMOUNT has the same SUM on both sides and another AVG,
\* a NULL among the values, and the mismatch recorded.
C8_Witness ==
    /\ PhaseDone(1, 3)
    /\ "ORDERS" \in common_tables
    /\ IsNumeric(new_db, "ORDERS", "AMOUNT")
    /\ LET o == SumCount(old_db, "ORDERS", "AMOUNT")
           n == SumCount(new_db, "ORDERS", "AMOUNT")
       IN /\ o.sum = n.sum
          /\ o.count # n.count
          /\ o.count > 0
          /\ n.count > 0
          /\ None \in Range(column_values(old_db, "ORDERS", "AMOUNT"))
    /\ \E i \in DOMAIN Report(1, "aggregate_function_validation.csv") :
          LET x == Report(1, "aggregate_function_validation.csv")[i]
          IN x.Type = "Aggregate Mismatch" /\ x.Column = "AMOUNT"

RowLevelTypes ==
    {"Missing Row in New", "Extra Row in New", "Cell Value Mismatch"}

\* C9: for a common table fetched on both sides, the value-by-value check
\* emits exactly one "Column Structure Mismatch" record and no other record
\* about the table when the two column lists differ, and no such record when
\* they are equal; the join comparison does the same; the other tables are
\* compared all the same.
C9_ColumnStructureMismatch ==
    \A r \in 1..NumRuns : \A t \in common_tables :
        Fetched(t) =>
            LET differ == old_db.tables[t].columns # new_db.tables[t].columns
            IN /\ PhaseDone(r, 5) =>
                     LET e == OfTable(Emitted(r, VbvFile), t)
                     IN /\ Len(OfType(e, "Column Structure Mismatch"))
                              = IF differ THEN 1 ELSE 0
                        /\ differ => Len(e) = 1
                        /\ \A u \in common_tables :
                              <<r, "value_by_value_check", u>> \in performed
               /\ PhaseDone(r, 4) =>
                     LET j == OfTable(Emitted(r, "sql_join_comparison"), t)
                     IN /\ Len(OfType(j, "Column Structure Mismatch"))
                              = IF differ THEN 1 ELSE 0
                        /\ differ => Len(j) = 1

\* ORDERS fetched with a renamed column (lists of one length) and with
\* different rows, the mismatch recorded, and ITEMS reported for its missing
\* row by the same run.
C9_Witness ==
    /\ PhaseDone(1, 5)
    /\ Fetched("ORDERS")
    /\ Fetched("ITEMS")
    /\ old_db.tables["ORDERS"].columns # new_db.tables["ORDERS"].columns
    /\ Len(old_db.tables["ORDERS"].columns) = Len(new_db.tables["ORDERS"].columns)
    /\ Len(old_db.tables["ORDERS"].rows) # Len(new_db.tables["ORDERS"].rows)
    /\ Count(Emitted(1, VbvFile), "Column Structure Mismatch", "ORDERS") = 1
    /\ Count(Emitted(1, VbvFile), "Missing Row in New", "ITEMS") = 1

DiscrepancyTypes == RowLevelTypes \cup {"Column Structure Mismatch"}

\* C10: a common table one of whose SELECTs raises gets exactly one record
\* from the value-by-value check, an error record and not a record of a
\* discrepancy kind, and the other tables are compared all the same.
C10_FetchErrorRecorded ==
    \A r \in 1..NumRuns : \A t \in common_tables :
        (PhaseDone(r, 5) /\ ~Fetched(t)) =>
            LET e == OfTable(Emitted(r, VbvFile), t)
            IN /\ Len(e) = 1
               /\ e[1].Type \notin DiscrepancyTypes
               /\ \A u \in common_tables :
                     <<r, "value_by_value_check", u>> \in performed

\* What the check emits when a SELECT raises: a "Column Structure Mismatch"
\* when one side was fetched with columns, nothing when neither was; the
\* other tables are compared all the same.
C10_FetchErrorAsEmitted ==
    \A r \in 1..NumRuns : \A t \in common_tables :
        (PhaseDone(r, 5) /\ ~Fetched(t)) =>
            LET e == OfTable(Emitted(r, VbvFile), t)
                both == /\ select_raises("old", old_db, t)
                        /\ select_raises("new", new_db, t)
            IN /\ both => e = <<>>
               /\ ~both => /\ Len(e) = 1
                           /\ e[1].Type = "Column Structure Mismatch"
               /\ \A u \in common_tables :
                     <<r, "value_by_value_check", u>> \in performed

AllPhases ==
    {"miscellaneous_discrepancies", "schema_validation", "count_validation"}
    \cup PerTablePhases

CatalogKinds == {"columns", "constraints", "indexes"}

\* C11: whatever query fails for a table, a run that is over has had every
\* phase process every common table.
C11_FailureIsolated ==
    \A r \in 1..NumRuns :
        RunOver(r) =>
            \A ph \in AllPhases : \A t \in OldTables \cap NewTables :
                <<r, ph, t>> \in performed

\* What the run does: the failures of the row, count, SUM/AVG and NULL-count
\* queries are caught where they occur, a failing catalog query is not.
C11_AsExecuted ==
    \A r \in 1..NumRuns :
        RunOver(r) =>
            /\ (\A f \in failing : f[1] \notin CatalogKinds) =>
                  \A ph \in AllPhases : \A t \in OldTables \cap NewTables :
                      <<r, ph, t>> \in performed
            /\ (\E f \in failing : f[1] = "columns") =>
                  /\ r \in error_runs
                  /\ \A ph \in PerTablePhases \cup {"count_validation"} :
                        \A t \in TableNames : <<r, ph, t>> \notin performed

\* The records of a sequence about the table whose Type is one of types.
ErrorRecords(records, table, types) ==
    SelectSeq(OfTable(records, table), LAMBDA x : x.Type \in types)

NullTypes == {"Null Count Mismatch", "No discrepancies noted"}

\* C12: when a query on the rows of a common table raises and is caught,
\* each report whose phase ran the query holds an error record about the
\* table: the count report, the aggregate report, the null-count report and
\* the value-by-value output.
C12_ErrorsRecorded ==
    \A r \in 1..NumRuns : \A t \in common_tables :
        (PhaseDone(r, 6) /\ ~Fetched(t)) =>
            /\ ErrorRecords(Report(r, "count_validation.csv"), t,
                            {"Database Error"}) # <<>>
            /\ ErrorRecords(Report(r, "aggregate_function_validation.csv"), t,
                            {"Error"}) # <<>>
            /\ \E i \in DOMAIN Report(r, "null_value_verification.csv") :
                  LET x == Report(r, "null_value_verification.csv")[i]
                  IN x.Table = t /\ x.Type \notin NullTypes
            /\ \E i \in DOMAIN Emitted(r, VbvFile) :
                  LET x == Emitted(r, VbvFile)[i]
                  IN x.Table = t /\ x.Type \notin DiscrepancyTypes

\* What the run records: the count and the aggregate report hold the error,
\* the null-count report holds nothing about the table, not even a detail
\* row, and the value-by-value output holds no error record.
C12_AsRecorded ==
    \A r \in 1..NumRuns : \A t \in common_tables :
        (PhaseDone(r, 6) /\ ~Fetched(t)) =>
            /\ ErrorRecords(Report(r, "count_validation.csv"), t,
                            {"Database Error"}) # <<>>
            /\ ErrorRecords(Report(r, "aggregate_function_validation.csv"), t,
                            {"Error"}) # <<>>
            /\ OfTable(Report(r, "null_value_verification.csv"), t) = <<>>
            /\ OfTable(results_dir[r][<<"null_value_verification.csv">>].detailed, t)
                  = <<>>
            /\ \A i \in DOMAIN Emitted(r, VbvFile) :
                  Emitted(r, VbvFile)[i].Type \in DiscrepancyTypes

\* The records of a sequence about a column of a table.
OfColumn(records, table, col) ==
    SelectSeq(OfTable(records, table), LAMBDA x : x.Column = col)

AggregateFile == "aggregate_function_validation.csv"

\* C13: in a run past the aggregate validation, a column numeric on both
\* sides whose SUM/AVG query raises has exactly one record in the aggregate
\* report, an "Error" record with its table and its name, and every other
\* numeric column of every common table has its detail row and no error.
C13_AggregateErrorPerColumn ==
    \A r \in 1..NumRuns : \A t \in common_tables :
        PhaseDone(r, 3) =>
            \A col \in Range(old_db.tables[t].columns) :
                (IsNumeric(old_db, t, col) /\ IsNumeric(new_db, t, col)) =>
                    LET recs == OfColumn(Report(r, AggregateFile), t, col)
                        det == OfColumn(results_dir[r][<<AggregateFile>>].detailed,
                                        t, col)
                    IN IF \/ aggregate_raises("old", old_db, t, col)
                          \/ aggregate_raises("new", new_db, t, col)
                       THEN /\ Len(recs) = 1
                            /\ recs[1].Type = "Error"
                            /\ det = <<>>
                       ELSE /\ OfType(recs, "Error") = <<>>
                            /\ Len(det) = 1

\* The SUM/AVG query on ORDERS.AMOUNT raises and is the only failure: the
\* error is recorded and ORDERS.ID and the columns of ITEMS are validated.
C13_Witness ==
    /\ PhaseDone(1, 3)
    /\ unreadable = {}
    /\ failing = {<<"aggregate", "new", "ORDERS", "AMOUNT">>}
    /\ Len(OfType(OfColumn(Report(1, AggregateFile), "ORDERS", "AMOUNT"), "Error")) = 1
    /\ Len(OfColumn(results_dir[1][<<AggregateFile>>].detailed, "ORDERS", "ID")) = 1
    /\ Len(OfTable(results_dir[1][<<AggregateFile>>].detailed, "ITEMS")) = 2

\* The rows of one side of a table that value_by_value_check holds at once:
\* the whole result of get_table_data, kept until the table is done.
RowsHeld(side, db, table) == Len(get_table_data(side, db, table).rows)

\* The records value_by_value_check holds before it hands the first one to
\* save_results_in_batches: all of them, of every table.
RecordsPending(r) == Len(Emitted(r, VbvFile))

\* C14: the value-by-value check of a run holds at most chunk_size rows of
\* either side of a table at a time, and the records it holds before handing
\* them over are those of one chunk per side at most.
C14_BoundedBuffers ==
    \A r \in 1..NumRuns :
        PhaseDone(r, 5) =>
            /\ \A t \in common_tables :
                  /\ RowsHeld("old", old_db, t) <= params_list[r].chunk_size
                  /\ RowsHeld("new", new_db, t) <= params_list[r].chunk_size
            /\ RecordsPending(r) <= 2 * params_list[r].chunk_size

\* What the check holds: every row of both sides of the table and every
\* record of the run, whatever the chunk size.
C14_AsHeld ==
    \A r \in 1..NumRuns :
        PhaseDone(r, 5) =>
            \A t \in common_tables :
                /\ RowsHeld("old", old_db, t) = Len(old_db.tables[t].rows)
                /\ RowsHeld("new", new_db, t) = Len(new_db.tables[t].rows)

\* a <= b in the lexicographic order on key tuples of one length.
KeyLeq(a, b) ==
    \/ a = b
    \/ \E i \in DOMAIN a : /\ a[i] < b[i]
                           /\ \A j \in 1..(i - 1) : a[j] = b[j]

\* The key of a missing-row or extra-row record of a table.
RecordKey(table, x) == KeyOf(table, x.Details[2])

\* C15: the missing-row and extra-row records the value-by-value check emits
\* for a table come in ascending order of their primary keys.
C15_AscendingKeyOrder ==
    \A r \in 1..NumRuns : \A t \in common_tables :
        (/\ PhaseDone(r, 5)
         /\ Fetched(t)
         /\ old_db.tables[t].columns = new_db.tables[t].columns) =>
            LET e == OfTable(Emitted(r, VbvFile), t)
            IN \A i \in DOMAIN e : \A j \in DOMAIN e :
                  i < j => KeyLeq(RecordKey(t, e[i]), RecordKey(t, e[j]))

\* What holds of the order: every missing-row record of a table comes before
\* every extra-row record of it, whatever the keys.
C15_AsEmitted ==
    \A r \in 1..NumRuns : \A t \in common_tables :
        (/\ PhaseDone(r, 5)
         /\ Fetched(t)
         /\ old_db.tables[t].columns = new_db.tables[t].columns) =>
            LET e == OfTable(Emitted(r, VbvFile), t)
            IN \A i \in DOMAIN e : \A j \in DOMAIN e :
                  (e[i].Type = "Missing Row in New" /\ e[j].Type = "Extra Row in New")
                      => i < j

\* The rank of a table name in the lexicographic order of the names.
NameRank(t) == IndexOf(TableNameSeq, t)

\* The names of a sequence of records come in lexicographic order.
InNameOrder(records) ==
    \A i \in DOMAIN records : \A j \in DOMAIN records :
        i < j => NameRank(records[i].Table) <= NameRank(records[j].Table)

HygieneFile == "table_hygiene_check.csv"

\* C16: the "Missing Table" records, the "Extra Table" records and the
\* per-table detail rows of the hygiene report, and those of the count and
\* schema reports, each come in the lexicographic order of the table names.
C16_LexicographicOrder ==
    \A r \in 1..NumRuns :
        /\ PhaseDone(r, 0) =>
              /\ InNameOrder(OfType(Report(r, HygieneFile), "Missing Table"))
              /\ InNameOrder(OfType(Report(r, HygieneFile), "Extra Table"))
              /\ InNameOrder(SelectSeq(results_dir[r][<<HygieneFile>>].detailed,
                                       LAMBDA x : x.Table # ""))
        /\ PhaseDone(r, 1) =>
              InNameOrder(results_dir[r][<<"schema_validation.csv">>].detailed)
        /\ PhaseDone(r, 2) =>
              /\ InNameOrder(OfType(Report(r, "count_validation.csv"), "Missing Table"))
              /\ InNameOrder(results_dir[r][<<"count_validation.csv">>].detailed)

\* What holds of the order: it is the order the sets iterate in, which is
\* the lexicographic one under one hash seed only.
C16_AsEmitted ==
    \A r \in 1..NumRuns :
        (PhaseDone(r, 0) /\ hash_seed = 0) =>
            /\ InNameOrder(OfType(Report(r, HygieneFile), "Missing Table"))
            /\ InNameOrder(OfType(Report(r, HygieneFile), "Extra Table"))

ReportNames ==
    {"count_validation.csv", "schema_validation.csv",
     "aggregate_function_validation.csv", "null_value_verification.csv",
     "table_hygiene_check.csv"}

IsDetailRow(x) == x.Type = "Detailed Comparison"

IsDiscrepancyRow(x) ==
    x.Type \notin {"", "Detailed Comparison Below", "Detailed Comparison"}

\* C17: in every report a run has written, every discrepancy row (the
\* "No discrepancies noted" row when there is none) stands before every
\* detail row, and all the discrepancy and detail records are in the file.
C17_DiscrepanciesBeforeDetails ==
    \A r \in 1..NumRuns : \A name \in ReportNames :
        <<name>> \in DOMAIN results_dir[r] =>
            LET f == results_dir[r][<<name>>]
                w == f.written
            IN /\ \A i \in DOMAIN w : \A j \in DOMAIN w :
                     (IsDiscrepancyRow(w[i]) /\ IsDetailRow(w[j])) => i < j
               /\ SelectSeq(w, IsDiscrepancyRow) = f.rows
               /\ SelectSeq(w, IsDetailRow) = f.detailed

\* A run whose count report holds discrepancies and details and whose
\* hygiene report holds details and no discrepancy.
C17_Witness ==
    /\ PhaseDone(1, 2)
    /\ Len(OfType(Report(1, "count_validation.csv"), "Row Count Mismatch")) >= 1
    /\ Len(results_dir[1][<<"count_validation.csv">>].detailed) >= 1
    /\ Report(1, HygieneFile)[1].Type = "No discrepancies noted"
    /\ Len(results_dir[1][<<HygieneFile>>].detailed) >= 3

\* ------------------------------------------ save_results_in_batches alone
\* The kinds of record value_by_value_check builds: a column structure
\* mismatch and a missing row (three fields), a cell mismatch (seven).
ResultRecords ==
    {[Table |-> "ORDERS",
      Type |-> "Column Structure Mismatch",
      Details |-> <<"Old(", StdColumns, ") vs New(", <<"ID", "NAME">>, ")">>],
     missing_row_record("ORDERS", Row(1, 100)),
     missing_row_record("ORDERS", Row(2, 200)),
     [Table |-> "ORDERS",
      Type |-> "Cell Value Mismatch",
      Column |-> "AMOUNT",
      Row_Key |-> Row(3, 300),
      Old_Value |-> 300,
      New_Value |-> 350,
      Details |-> <<"Mismatch in column", "AMOUNT", Row(3, 300), 300, 350>>]}

\* Any list of at most MaxLen such records, any batch size in 1..MaxBatch.
Calls ==
    {[results |-> l, batch_size |-> b] :
        l \in UNION {[1..n -> ResultRecords] : n \in 0..MaxLen},
        b \in 1..MaxBatch}

InitBatch ==
    \/ InitPrograms(OrdersDbs({StdTable(FullRows(2))}, {StdTable(FullRows(1))}),
                    {{}}, {{}}, OneRun)
    \/ InitCall(Calls)
    \/ InitTask

SpecBatch == InitBatch /\ [][Next]_vars

BatchFile(i) == <<"value_by_value_check", "_batch_", i>>

\* ceil(L / b), from its definition.
CeilDiv(L, b) == CHOOSE n \in 0..L : n * b >= L /\ (n - 1) * b < L

SameFields(records) ==
    \A i \in DOMAIN records : \A j \in DOMAIN records :
        DOMAIN records[i] = DOMAIN records[j]

Partitioned ==
    LET n == CeilDiv(Len(call.results), call.batch_size)
    IN /\ DOMAIN output_dir = {BatchFile(i) : i \in 1..n}
       /\ \A i \in 1..n : Len(output_dir[BatchFile(i)].rows) \in 1..call.batch_size
       /\ FlattenSeq([i \in 1..n |-> output_dir[BatchFile(i)].rows]) = call.results

\* C18: after save_results_in_batches was called on L records with batch
\* size b, output_dir holds the units _batch_1 .. _batch_ceil(L/b), each
\* with 1 to b records, and the units in index order concatenate to the
\* list passed.
C18_Partition == batch_pc \in {"returned", "raised"} => Partitioned

\* What the code does: the list is partitioned so when all its records have
\* the same fields.
C18_AsWritten ==
    (batch_pc \in {"returned", "raised"} /\ SameFields(call.results))
        => (batch_pc = "returned" /\ Partitioned)

\* C19: a call of save_results_in_batches returns, whatever kinds of record
\* the list mixes, and every unit it wrote has a header covering every field
\* of every record of its batch and holds the whole batch.
C19_SelfContained ==
    batch_pc \in {"returned", "raised"} =>
        /\ batch_pc = "returned"
        /\ \A i \in 1..CeilDiv(Len(call.results), call.batch_size) :
              /\ BatchFile(i) \in DOMAIN output_dir
              /\ LET batch == SubSeq(call.results, (i - 1) * call.batch_size + 1,
                                     Min(i * call.batch_size, Len(call.results)))
                 IN /\ output_dir[BatchFile(i)].rows = batch
                    /\ \A k \in DOMAIN batch :
                          DOMAIN batch[k] \subseteq output_dir[BatchFile(i)].fieldnames

\* What the code does: the header of a unit is the field set of the first
\* record of its batch; the call raises exactly when a later record of a
\* batch has a field outside it, and then a unit holds less than its batch.
C19_AsWritten ==
    batch_pc \in {"returned", "raised"} =>
        /\ \A f \in DOMAIN output_dir :
              output_dir[f].fieldnames
                  = DOMAIN call.results[(f[3] - 1) * call.batch_size + 1]
        /\ (batch_pc = "raised") <=>
              \E i \in DOMAIN call.results : \E j \in DOMAIN call.results :
                  /\ i < j
                  /\ (i - 1) % call.batch_size = 0
                  /\ j <= i + call.batch_size - 1
                  /\ ~(DOMAIN call.results[j] \subseteq DOMAIN call.results[i])
        /\ (batch_pc = "raised") =>
              Len(FlattenSeq([i \in 1..Cardinality(DOMAIN output_dir) |->
                                 output_dir[BatchFile(i)].rows]))
                  < Len(call.results)

\* ------------------------------------------------------------ cancellation
\* The tables value_by_value_check had compared when the run was interrupted.
ComparedAtInterrupt ==
    {t \in TableNames : <<run_num, "value_by_value_check", t>> \in performed}

\* C20: when a run was cancelled during the value-by-value check, the
\* records produced so far, those of the tables already compared, are in the
\* output of the run.
C20_CooperativeCancel ==
    pc = "interrupted" =>
        \A t \in ComparedAtInterrupt :
            \A i \in DOMAIN value_by_value_table(t) :
                value_by_value_table(t)[i] \in Range(Emitted(run_num, VbvFile))

\* What the code does: an interrupted value-by-value check leaves no output
\* unit, whatever it had compared; the reports of the earlier phases stay.
C20_AsExecuted ==
    pc = "interrupted" =>
        /\ Emitted(run_num, VbvFile) = <<>>
        /\ \A f \in DOMAIN results_dir[run_num] : f[1] # VbvFile
        /\ run_num \notin error_runs
           => {<<HygieneFile>>, <<"schema_validation.csv">>,
               <<"count_validation.csv">>} \subseteq DOMAIN results_dir[run_num]

\* ---------------------------------------------------------------- read-only
\* C21: no step of any program changes the old or the new database: table
\* sets, schemas and rows after the step are those before it.
C21_ReadOnly == [][old_db' = old_db /\ new_db' = new_db]_vars

\* A run that went through all seven phases on databases that hold rows and
\* differ, and wrote discrepancies.
C21_Witness ==
    /\ PhaseDone(1, 6)
    /\ "ORDERS" \in OldTables \cap NewTables
    /\ old_db.tables["ORDERS"].rows # <<>>
    /\ old_db.tables["ORDERS"].columns # new_db.tables["ORDERS"].columns
    /\ Len(OfType(Emitted(1, VbvFile), "Column Structure Mismatch")) >= 1

\* -------------------------------------------------------- schema validation
\* Schemas: beside ID, a table has NAME and AMOUNT or lacks them, each with
\* one of three (data_type, data_length) pairs; the tables hold no rows, the
\* schema being read from the catalog.
ColumnDefs ==
    [i \in 2..3 |->
        IF i = 2 THEN {<<>>, <<"VARCHAR2", 50>>, <<"VARCHAR2", 100>>, <<"CHAR", 50>>}
        ELSE {<<>>, <<"NUMBER", 22>>, <<"NUMBER", 10>>, <<"FLOAT", 22>>}]

ProjectedTable(name_def, amount_def) ==
    LET def == <<StdTypes[1], name_def, amount_def>>
        idx == SelectSeq(<<1, 2, 3>>, LAMBDA i : def[i] # <<>>)
    IN Tbl([k \in 1..Len(idx) |-> StdColumns[idx[k]]],
           [k \in 1..Len(idx) |-> def[idx[k]]],
           <<"ID">>, <<>>)

SchemaTables ==
    {ProjectedTable(n, a) : n \in ColumnDefs[2], a \in ColumnDefs[3]}

\* ITEMS and ORDERS on both sides: ORDERS with any two schemas, ITEMS with
\* the standard one but, in the new database, perhaps without AMOUNT.
SchemaDbs ==
    {<<Db(("ITEMS" :> StdTable(<<>>)) @@ ("ORDERS" :> o)),
       Db(("ITEMS" :> i) @@ ("ORDERS" :> n))>> :
        o \in SchemaTables, n \in SchemaTables,
        i \in {StdTable(<<>>), ProjectedTable(StdTypes[2], <<>>)}}

InitSchema ==
    InitFrom(SchemaDbs, {{}}, {<<[chunk_size |-> DefaultChunkSize]>>})

SpecSchema == InitSchema /\ [][Next]_vars

SchemaFile == "schema_validation.csv"

\* The columns of the table in the database, and the definition of one.
ColumnsOf(db, table) == Range(db.tables[table].columns)

DefOf(db, table, col) ==
    db.tables[table].types[IndexOf(db.tables[table].columns, col)]

\* The columns the records of one type name for the table, and whether no
\* column is named twice.
ColumnsNamed(records, type, table) ==
    {x.Column : x \in Range(OfTable(OfType(records, type), table))}

NamedOnce(records, type, table) ==
    Len(OfTable(OfType(records, type), table))
        = Cardinality(ColumnsNamed(records, type, table))

\* C22: for every common table the schema report names as Missing Column
\* exactly the columns of old minus new, as Extra Column exactly those of
\* new minus old, as Data Type Mismatch exactly the columns on both sides
\* whose (type, length) pairs differ, each once; and it holds one detail row
\* per column of the union, "Discrepancy" exactly when one of the three
\* records names the column and "Match" otherwise.
C22_SchemaRecords ==
    \A r \in 1..NumRuns :
        PhaseDone(r, 1) =>
            \A t \in OldTables \cap NewTables :
                LET old_cols == ColumnsOf(old_db, t)
                    new_cols == ColumnsOf(new_db, t)
                    d == Report(r, SchemaFile)
                    detail == results_dir[r][<<SchemaFile>>].detailed
                    flagged == ColumnsNamed(d, "Missing Column", t)
                                 \cup ColumnsNamed(d, "Extra Column", t)
                                 \cup ColumnsNamed(d, "Data Type Mismatch", t)
                IN /\ ColumnsNamed(d, "Missing Column", t) = old_cols \ new_cols
                   /\ ColumnsNamed(d, "Extra Column", t) = new_cols \ old_cols
                   /\ ColumnsNamed(d, "Data Type Mismatch", t)
                        = {c \in old_cols \cap new_cols :
                              DefOf(old_db, t, c) # DefOf(new_db, t, c)}
                   /\ NamedOnce(d, "Missing Column", t)
                   /\ NamedOnce(d, "Extra Column", t)
                   /\ NamedOnce(d, "Data Type Mismatch", t)
                   /\ ColumnsNamed(detail, "Detailed Comparison", t)
                        = old_cols \cup new_cols
                   /\ NamedOnce(detail, "Detailed Comparison", t)
                   /\ \A x \in Range(OfTable(detail, t)) :
                         x.Details = IF x.Column \in flagged
                                     THEN "Discrepancy" ELSE "Match"

\* A run whose schema report holds, for ORDERS, a missing column and a
\* column whose length alone differs, and a matching column.
C22_Witness ==
    /\ PhaseDone(1, 1)
    /\ {"ORDERS", "ITEMS"} \subseteq OldTables \cap NewTables
    /\ ColumnsOf(old_db, "ORDERS") = {"ID", "NAME", "AMOUNT"}
    /\ ColumnsOf(new_db, "ORDERS") = {"ID", "AMOUNT"}
    /\ DefOf(old_db, "ORDERS", "AMOUNT") = <<"NUMBER", 22>>
    /\ DefOf(new_db, "ORDERS", "AMOUNT") = <<"NUMBER", 10>>
    /\ Count(Report(1, SchemaFile), "Missing Column", "ORDERS") = 1
    /\ Count(Report(1, SchemaFile), "Data Type Mismatch", "ORDERS") = 1
    /\ Count(Report(1, SchemaFile), "Extra Column", "ITEMS") = 0

\* ------------------------------------------------------- schema objects
\* ORDERS on both sides and ITEMS in the old database only, each with its
\* indexes and triggers; sequences and views per database.
IndexSets == {{"IDX_PK"}, {"IDX_PK", "IDX_NAME"}, {"IDX_NAME"}}

TriggerSets == {{}, {"TRG_AUDIT"}}

SequenceSets == {{"SEQ_1"}, {"SEQ_1", "SEQ_2"}, {"SEQ_2"}}

ViewSets == {{}, {"V_TOTALS"}}

ObjectTable(indexes, triggers) ==
    [StdTable(BaseRows) EXCEPT !.indexes = indexes, !.triggers = triggers]

ObjectDb(tables, sequences, views) ==
    [Db(tables) EXCEPT !.sequences = sequences, !.views = views]

ObjectDbs ==
    {<<ObjectDb(("ITEMS" :> ObjectTable({"IDX_ITEMS"}, {"TRG_ITEMS"}))
                  @@ ("ORDERS" :> ObjectTable(oi, ot)), os, ov),
       ObjectDb("ORDERS" :> ObjectTable(ni, nt), ns, nv)>> :
        oi \in IndexSets, ni \in IndexSets, ot \in TriggerSets, nt \in TriggerSets,
        os \in SequenceSets, ns \in SequenceSets, ov \in ViewSets, nv \in ViewSets}

InitObjects ==
    InitFrom(ObjectDbs, {{}}, {<<[chunk_size |-> DefaultChunkSize]>>})

SpecObjects == InitObjects /\ [][Next]_vars

\* The objects the records of one type name for the table ("" for the
\* schema-wide ones), and whether no object is named twice.
ObjectsNamed(records, type, table) ==
    {x.Object : x \in Range(OfTable(OfType(records, type), table))}

ObjectsNamedOnce(records, type, table) ==
    Len(OfTable(OfType(records, type), table))
        = Cardinality(ObjectsNamed(records, type, table))

\* The records of the two types name exactly old minus new and new minus
\* old, each name once.
IsDifference(records, missing_type, extra_type, table, old, new) ==
    /\ ObjectsNamed(records, missing_type, table) = old \ new
    /\ ObjectsNamed(records, extra_type, table) = new \ old
    /\ ObjectsNamedOnce(records, missing_type, table)
    /\ ObjectsNamedOnce(records, extra_type, table)

PerTableTypes ==
    {"Missing Index", "Extra Index", "Missing Trigger", "Extra Trigger"}

\* C23: the hygiene report names, for every common table, as Missing/Extra
\* Index and Missing/Extra Trigger exactly the names of old minus new and
\* of new minus old, and as Missing/Extra Sequence and View those of the two
\* schemas; no index or trigger record names a table outside the common ones.
C23_ObjectDifferences ==
    \A r \in 1..NumRuns :
        PhaseDone(r, 0) =>
            LET d == Report(r, HygieneFile)
            IN /\ \A t \in OldTables \cap NewTables :
                    /\ IsDifference(d, "Missing Index", "Extra Index", t,
                                    old_db.tables[t].indexes,
                                    new_db.tables[t].indexes)
                    /\ IsDifference(d, "Missing Trigger", "Extra Trigger", t,
                                    old_db.tables[t].triggers,
                                    new_db.tables[t].triggers)
               /\ IsDifference(d, "Missing Sequence", "Extra Sequence", "",
                               old_db.sequences, new_db.sequences)
               /\ IsDifference(d, "Missing View", "Extra View", "",
                               old_db.views, new_db.views)
               /\ \A i \in DOMAIN d :
                     d[i].Type \in PerTableTypes
                         => d[i].Table \in OldTables \cap NewTables

\* A run over databases where ORDERS lost an index and gained a trigger, a
\* sequence was lost and a view gained, and the old-only ITEMS has objects.
C23_Witness ==
    /\ PhaseDone(1, 0)
    /\ "ITEMS" \in OldTables \ NewTables
    /\ old_db.tables["ITEMS"].indexes # {}
    /\ Count(Report(1, HygieneFile), "Missing Index", "ORDERS") = 1
    /\ Count(Report(1, HygieneFile), "Extra Index", "ORDERS") = 1
    /\ Count(Report(1, HygieneFile), "Extra Trigger", "ORDERS") = 1
    /\ Len(OfType(Report(1, HygieneFile), "Missing Sequence")) = 1
    /\ Len(OfType(Report(1, HygieneFile), "Extra View")) = 1

\* ------------------------------------------------------------------ row keys
\* The rows value_by_value_check fetched of the table, both sides.
RowsFetched(table) ==
    Range(get_table_data("old", old_db, table).rows)
        \cup Range(get_table_data("new", new_db, table).rows)

\* C24: the key value_by_value_check gives a row of a common table is the
\* tuple of its primary-key values when the table has a primary key, and
\* the whole row only when it has none.
C24_KeyDerivation ==
    \A r \in 1..NumRuns :
        PhaseDone(r, 5) =>
            \A t \in OldTables \cap NewTables :
                LET pk_columns == get_primary_key_columns(old_db, t)
                IN \A row \in RowsFetched(t) :
                      row_key(row) =
                          IF pk_columns # <<>>
                          THEN pk_of(old_db.tables[t].columns, pk_columns, row)
                          ELSE row

\* What the code does: the key is the whole row, primary key or not.
C24_AsKeyed ==
    \A r \in 1..NumRuns :
        PhaseDone(r, 5) =>
            \A t \in OldTables \cap NewTables :
                /\ \A row \in RowsFetched(t) : row_key(row) = row
                /\ \A side \in {old_db, new_db} :
                      DOMAIN data_dict(side.tables[t].rows)
                          = Range(side.tables[t].rows)

\* ------------------------------------------------- count report: detail rows
CountFile == "count_validation.csv"

\* C25: the count report holds exactly one detail row for every common
\* table, also for a table with a discrepancy or an error, and as many
\* detail rows as there are common tables.
C25_OneDetailPerTable ==
    \A r \in 1..NumRuns :
        PhaseDone(r, 2) =>
            LET detail == results_dir[r][<<CountFile>>].detailed
            IN /\ \A t \in OldTables \cap NewTables : Len(OfTable(detail, t)) = 1
               /\ Len(detail) = Cardinality(OldTables \cap NewTables)

\* What the code does: a common table has one detail row unless a query on
\* it raised, in which case it has the Database Error record and no detail
\* row; a table with a row count mismatch has its detail row.
C25_AsWritten ==
    \A r \in 1..NumRuns :
        PhaseDone(r, 2) =>
            LET detail == results_dir[r][<<CountFile>>].detailed
                d == Report(r, CountFile)
            IN /\ \A t \in OldTables \cap NewTables :
                    /\ Count(d, "Database Error", t) + Len(OfTable(detail, t)) = 1
                    /\ Count(d, "Database Error", t) = 1 <=> ~Fetched(t)
                    /\ Count(d, "Row Count Mismatch", t) = 1
                          => Len(OfTable(detail, t)) = 1
               /\ \A i \in DOMAIN detail :
                     detail[i].Table \in OldTables \cap NewTables

\* ------------------------------------------------------------ duplicate rows
\* ORDERS without primary key: either side holds any list of at most MaxId
\* rows drawn from two, so a row may occur several times.
DupRows == UNION {[1..n -> {Row(1, 100), Row(2, 200)}] : n \in 0..MaxId}

DupDbs ==
    OrdersDbs({Tbl(StdColumns, StdTypes, <<>>, r) : r \in DupRows},
              {Tbl(StdColumns, StdTypes, <<>>, r) : r \in DupRows})

InitDup == InitFrom(DupDbs, {{}}, OneRun)

SpecDup == InitDup /\ [][Next]_vars

JoinFile == "sql_join_comparison"

\* The records of the type whose Details name the row.
AboutRow(records, type, row) ==
    SelectSeq(OfType(records, type), LAMBDA x : x.Details[2] = row)

ConnectFailures == SUBSET ((1..NumRuns) \X {"old", "new"})

InitConnections ==
    \/ InitConnect(OrdersDbs({StdTable(FullRows(2))}, {StdTable(FullRows(1))}),
                   {{}}, {{}}, Runs, ConnectFailures)
    \/ InitAlone

SpecConnect == InitConnections /\ [][Next]_vars

\* A connect of run k raised.
ConnectFailed(k) ==
    /\ program = "audit"
    /\ k \in 1..Len(params_list)
    /\ \E side \in {"old", "new"} : <<k, side>> \in conn_fails

\* Run k has left its finally block, normally or not.
FinallyOver(k) ==
    /\ program = "audit"
    /\ \/ run_num > k
       \/ run_num = k /\ pc \in {"crashed", "interrupted"}

\* C28: after a run k in which a connect raised, the failure is reported,
\* the connections opened in run k are closed, finally did not fail on an
\* unassigned connection variable and closed no connection of an earlier
\* run, and the runs after k are executed.
C28_ConnectionFailureContained ==
    \A k \in 1..NumRuns :
        (ConnectFailed(k) /\ FinallyOver(k)) =>
            /\ k \in error_runs
            /\ old_conn.run = k => ~old_conn.open
            /\ new_conn.run = k => ~new_conn.open
            /\ pc # "crashed"
            /\ \A c \in close_calls : c[1] = k => c[2] = k
            /\ pc \in {"done", "interrupted"} => run_num > k

\* What the code does: the failure is reported and what run k opened is
\* closed; finally fails exactly when a connection variable was never
\* assigned, in this or an earlier run, and otherwise it calls close on the
\* connection an earlier run left in the variable.
C28_AsExecuted ==
    \A k \in 1..NumRuns :
        (ConnectFailed(k) /\ FinallyOver(k)) =>
            /\ k \in error_runs
            /\ old_conn.run = k => ~old_conn.open
            /\ new_conn.run = k => ~new_conn.open
            /\ (run_num = k /\ pc = "crashed")
                  <=> \/ \A j \in 1..k : <<j, "old">> \in conn_fails
                      \/ \A j \in 1..k : \E side \in {"old", "new"} :
                            <<j, side>> \in conn_fails
            /\ run_num > k
                  => \E c \in close_calls : c[1] = k /\ c[2] < k /\ c[2] >= 1

\* ------------------------------------------------------------- empty reports
\* The units run r wrote under the prefix.
Units(r, prefix) ==
    {f \in DOMAIN results_dir[r] : Len(f) = 3 /\ f[1] = prefix}

\* Every common table was fetched with the same columns and the same set of
\* rows on both sides: neither batched check has a record to append.
NothingToReport ==
    \A t \in OldTables \cap NewTables :
        /\ Fetched(t)
        /\ old_db.tables[t].columns = new_db.tables[t].columns
        /\ Range(old_db.tables[t].rows) = Range(new_db.tables[t].rows)

\* C29: a batched check with no record writes no unit and one with records
\* writes at least the first unit, in a run and in a call of
\* save_results_in_batches alone; a non-batched report is always written,
\* and holds the "No discrepancies noted" row when it has no discrepancy.
C29_EmptyBatchedReport ==
    /\ \A r \in 1..NumRuns :
          /\ PhaseDone(r, 4) =>
                IF NothingToReport THEN Units(r, JoinFile) = {}
                ELSE <<JoinFile, "_batch_", 1>> \in Units(r, JoinFile)
          /\ PhaseDone(r, 5) =>
                IF NothingToReport THEN Units(r, VbvFile) = {}
                ELSE <<VbvFile, "_batch_", 1>> \in Units(r, VbvFile)
          /\ PhaseDone(r, 0) =>
                /\ <<HygieneFile>> \in DOMAIN results_dir[r]
                /\ Len(Report(r, HygieneFile)) >= 1
          /\ PhaseDone(r, 2) =>
                /\ <<CountFile>> \in DOMAIN results_dir[r]
                /\ (\A t \in OldTables \cap NewTables :
                       Len(old_db.tables[t].rows) = Len(new_db.tables[t].rows))
                   => Report(r, CountFile)
                        = <<[Type |-> "No discrepancies noted", Table |-> ""]>>
    /\ batch_pc \in {"returned", "raised"} =>
          IF call.results = <<>> THEN output_dir = <<>>
          ELSE BatchFile(1) \in DOMAIN output_dir

\* A run over two equal tables: no unit of either batched check, and the
\* count and hygiene reports with their "No discrepancies noted" row.
C29_Witness ==
    /\ PhaseDone(1, 5)
    /\ old_db.tables["ORDERS"].rows = <<Row(1, 100), Row(2, 200)>>
    /\ new_db.tables["ORDERS"].rows = old_db.tables["ORDERS"].rows
    /\ Units(1, VbvFile) = {}
    /\ Units(1, JoinFile) = {}
    /\ Report(1, CountFile)[1].Type = "No discrepancies noted"
    /\ Report(1, HygieneFile)[1].Type = "No discrepancies noted"

\* --------------------------------------------------------- progress readings
\* The bot script beside one small audit.
InitNotify ==
    InitWith(OrdersDbs({StdTable(FullRows(2))}, {StdTable(FullRows(1))}),
             {{}}, {{}}, OneRun)

SpecNotify == InitNotify /\ [][Next]_vars

\* int(k * 100 / 7) for the steps k in 0..6.
StepPercentages == {(k * 100) \div 7 : k \in 0..6}

\* C30: however the /status requests interleave with process_task, every
\* progress value read is in 0..100 and is int(k*100/7) for a step k in
\* 0..6, the values read never decrease, and progress is still below 100
\* when the "Completed Successfully" notification has been sent.
C30_ProgressReadings ==
    /\ \A i \in DOMAIN status_reads :
          /\ status_reads[i] \in 0..100
          /\ status_reads[i] \in StepPercentages
    /\ \A i \in DOMAIN status_reads : \A j \in DOMAIN status_reads :
          i < j => status_reads[i] <= status_reads[j]
    /\ progress \in StepPercentages
    /\ task_pc = "completed" => progress < 100

\* Requests served before the first step, during the loop and after the
\* completion notification.
C30_Witness ==
    /\ task_pc = "completed"
    /\ Len(status_reads) = 3
    /\ status_reads[1] = 0
    /\ status_reads[2] = 42
    /\ status_reads[3] = 85
    /\ progress = 85

====
